---------------------------- MODULE Spec2Model ----------------------------
(***************************************************************************)
(* Model of the badge-generation service (oneorigin-inc/mit-slm).          *)
(*                                                                         *)
(*  Spec        OllamaService under concurrent generate / generate_stream  *)
(*              calls: the asyncio semaphore, the slot counters and the    *)
(*              try/finally skeleton of every call.                        *)
(*  SpecCall    one call in full detail: OllamaService.generate,           *)
(*              OllamaService.generate_stream, OllamaClient.generate and   *)
(*              OllamaClient.generate_stream, with the backend's lines,    *)
(*              failures and the consumer's behaviour chosen step by step. *)
(*  SpecCallFair  SpecCall with the fairness of the event loop.            *)
(*  SpecExtract the JSON extractors applied to bounded texts.              *)
(***************************************************************************)
EXTENDS Integers, Sequences, FiniteSets, TLC

(***************************************************************************)
(* Bounds of the model.                                                    *)
(***************************************************************************)
\* the configured ceiling max_concurrent_requests (config.MAX_CONCURRENT_REQUESTS)
MaxConcurrent == 2

\* number of concurrent callers of OllamaService in Spec
NumProcs == 4

\* number of response lines the backend may send on one stream in SpecCall
MaxLines == 3

\* longest text handed to an extractor in SpecExtract
MaxLen == 4

Procs == 1..NumProcs

VARIABLES
    \* ---- OllamaService shared state (ollama_service.py:36-43)
    sem_value,        \* asyncio.Semaphore._value of self.semaphore
    sem_waiters,      \* asyncio.Semaphore._waiters, in arrival order
    sem_granted,      \* waiters whose future has a result and have not resumed yet
    request_counter,  \* self.request_counter
    active_requests,  \* self.active_requests
    \* ---- Spec: the concurrent callers
    pc,               \* position of each caller
    call,             \* which method each caller invoked
    holders,          \* callers that returned from _acquire_slot and have not released
    released,         \* number of _release_slot calls made by each caller
    issued,           \* callers in the order in which they invoked their method
    \* ---- SpecCall: the one detailed call
    cCall, cPc, cSent, cEvents, cAcc, cPending, cOutcome, cFail,
    cAcquired, cReleased, cAbandonedAt,
    \* ---- SpecExtract, SpecBalanced: one extractor applied to one text
    xText, xObj, xFn, xResult,
    \* ---- SpecPayload: one model output taken through one path to its caller
    pIn, pFn, pOut,
    \* ---- SpecIcon: one icon suggestion
    iIn, iFn, iOut,
    \* ---- SpecNorm: preprocess_text applied once or twice
    nIn, nFn, nOut,
    \* ---- SpecHistory: the badge history of the router
    badge_history,    \* badge_history of src/app/routers/badges.py
    hCount,           \* number of badges generated so far
    hResp,            \* what the last request was answered with
    \* ---- SpecClient: the pooled HTTP client of OllamaService
    client_pool,      \* self.client_pool: 0 for None, else the number of a client
    clients,          \* state of every httpx.AsyncClient created so far
    closing,          \* the clients of the close() calls suspended in aclose()
    lastSend          \* the last request sent: by whom, and the client's state

svcVars == <<sem_value, sem_waiters, sem_granted, request_counter, active_requests>>
procVars == <<pc, call, holders, released, issued>>
callVars == <<cCall, cPc, cSent, cEvents, cAcc, cPending, cOutcome, cFail,
              cAcquired, cReleased, cAbandonedAt>>
extractVars == <<xText, xObj, xFn, xResult>>
payloadVars == <<pIn, pFn, pOut>>
iconVars == <<iIn, iFn, iOut>>
normVars == <<nIn, nFn, nOut>>
histVars == <<badge_history, hCount, hResp>>
clientVars == <<client_pool, clients, closing, lastSend>>
moreVars == <<histVars, clientVars>>
pureVars == <<extractVars, payloadVars, iconVars, normVars, moreVars>>
vars == <<svcVars, procVars, callVars, pureVars>>

Max(a, b) == IF a > b THEN a ELSE b

(***************************************************************************)
(* asyncio.Semaphore as constructed at ollama_service.py:38 and used at    *)
(* lines 85 and 96.  release() increments the value and hands it to the    *)
(* first waiter whose future is still pending; that waiter stays in the    *)
(* queue until it resumes, so that locked() keeps later callers behind it. *)
(***************************************************************************)
SemLocked(val, ws) == val = 0 \/ ws # <<>>

FirstPending(ws, gr) ==
    LET idx == {i \in 1..Len(ws) : ws[i] \notin gr}
    IN  IF idx = {} THEN 0 ELSE CHOOSE i \in idx : \A j \in idx : i <= j

\* faulty variant: the waiter that arrived last is woken
LastPending(ws, gr) ==
    LET idx == {i \in 1..Len(ws) : ws[i] \notin gr}
    IN  IF idx = {} THEN 0 ELSE CHOOSE i \in idx : \A j \in idx : i >= j

\* the waiter that _wake_up_next picks (0: none)
WakeIndex(ws, gr) == FirstPending(ws, gr)

\* Semaphore._wake_up_next: <<value, granted>> afterwards
WakeUpNext(val, ws, gr) ==
    LET i == WakeIndex(ws, gr)
    IN  IF i = 0 THEN <<val, gr>> ELSE <<val - 1, gr \cup {ws[i]}>>

\* faulty variant: a release gives back two slots
SemReleaseDouble(val, ws, gr) == WakeUpNext(val + 2, ws, gr)

\* Semaphore.release: <<value, granted>> afterwards
SemRelease(val, ws, gr) == WakeUpNext(val + 1, ws, gr)

RemoveWaiter(ws, p) == SelectSeq(ws, LAMBDA q : q # p)

\* faulty variant: the decrement of the counter is lost
ReleaseSlotLost ==
    LET r == SemRelease(sem_value, sem_waiters, sem_granted)
    IN  /\ active_requests' = active_requests
        /\ sem_value' = r[1]
        /\ sem_granted' = r[2]
        /\ UNCHANGED <<sem_waiters, request_counter>>

\* _release_slot (ollama_service.py:93-97)
ReleaseSlot ==
    LET r == SemRelease(sem_value, sem_waiters, sem_granted)
    IN  /\ active_requests' = Max(0, active_requests - 1)
        /\ sem_value' = r[1]
        /\ sem_granted' = r[2]
        /\ UNCHANGED <<sem_waiters, request_counter>>

\* _acquire_slot when semaphore.acquire() returns without suspending
AcquireSlotFast ==
    /\ ~SemLocked(sem_value, sem_waiters)
    /\ sem_value' = sem_value - 1
    /\ request_counter' = request_counter + 1
    /\ active_requests' = active_requests + 1
    /\ UNCHANGED <<sem_waiters, sem_granted>>

SvcInit ==
    /\ sem_value = MaxConcurrent
    /\ sem_waiters = <<>>
    /\ sem_granted = {}
    /\ request_counter = 0
    /\ active_requests = 0

(***************************************************************************)
(* Spec: concurrent callers of OllamaService.                              *)
(***************************************************************************)
Methods == {"generate", "generate_stream"}

ProcInit ==
    /\ pc = [p \in Procs |-> "idle"]
    /\ call = [p \in Procs |-> "none"]
    /\ holders = {}
    /\ released = [p \in Procs |-> 0]
    /\ issued = <<>>

\* where a call continues once _acquire_slot has returned
AfterAcquire(m) == IF m = "generate" THEN "post" ELSE "stream"

\* generate / generate_stream invoked; the semaphore is free (lines 151, 221)
CallFast(p, m) ==
    /\ pc[p] = "idle"
    /\ AcquireSlotFast
    /\ pc' = [pc EXCEPT ![p] = AfterAcquire(m)]
    /\ call' = [call EXCEPT ![p] = m]
    /\ holders' = holders \cup {p}
    /\ issued' = Append(issued, p)
    /\ UNCHANGED <<released, callVars, pureVars>>

\* generate / generate_stream invoked; the caller suspends in semaphore.acquire()
CallWait(p, m) ==
    /\ pc[p] = "idle"
    /\ SemLocked(sem_value, sem_waiters)
    /\ sem_waiters' = Append(sem_waiters, p)
    /\ pc' = [pc EXCEPT ![p] = "waiting"]
    /\ call' = [call EXCEPT ![p] = m]
    /\ issued' = Append(issued, p)
    /\ UNCHANGED <<sem_value, sem_granted, request_counter, active_requests,
                   holders, released, callVars, pureVars>>

\* a woken waiter resumes: the rest of Semaphore.acquire, then lines 86-91
Resume(p) ==
    /\ pc[p] = "waiting"
    /\ p \in sem_granted
    /\ LET ws == RemoveWaiter(sem_waiters, p)
           gr == sem_granted \ {p}
           r  == IF sem_value > 0 THEN WakeUpNext(sem_value, ws, gr)
                 ELSE <<sem_value, gr>>
       IN  /\ sem_waiters' = ws
           /\ sem_value' = r[1]
           /\ sem_granted' = r[2]
    /\ request_counter' = request_counter + 1
    /\ active_requests' = active_requests + 1
    /\ pc' = [pc EXCEPT ![p] = AfterAcquire(call[p])]
    /\ holders' = holders \cup {p}
    /\ UNCHANGED <<call, released, issued, callVars, pureVars>>

\* the slot of p is given back (the finally clause, lines 216-217 and 333-334)
Finally(p) ==
    /\ ReleaseSlot
    /\ holders' = holders \ {p}
    /\ released' = [released EXCEPT ![p] = @ + 1]
    /\ pc' = [pc EXCEPT ![p] = "done"]
    /\ UNCHANGED <<call, issued, callVars, pureVars>>

\* generate: client.post answers or fails; everything up to the return or the
\* raise, and the finally clause, runs without suspending (lines 178-217)
GenerateComplete(p) ==
    /\ pc[p] = "post"
    /\ Finally(p)

\* generate_stream reaches a yield and suspends with its slot (lines 260-332)
StreamYield(p) ==
    /\ pc[p] = "stream"
    /\ pc' = [pc EXCEPT ![p] = "yielded"]
    /\ UNCHANGED <<svcVars, call, holders, released, issued, callVars, pureVars>>

\* the consumer asks for the next event
StreamNext(p) ==
    /\ pc[p] = "yielded"
    /\ pc' = [pc EXCEPT ![p] = "stream"]
    /\ UNCHANGED <<svcVars, call, holders, released, issued, callVars, pureVars>>

\* generate_stream runs to its end, or its consumer is cancelled while the
\* generator awaits the network: the finally clause runs (lines 333-334)
StreamEnd(p) ==
    /\ pc[p] = "stream"
    /\ Finally(p)

\* the consumer stops iterating and drops the suspended generator
Abandon(p) ==
    /\ pc[p] = "yielded"
    /\ pc' = [pc EXCEPT ![p] = "abandoned"]
    /\ UNCHANGED <<svcVars, call, holders, released, issued, callVars, pureVars>>

\* the event loop's asynchronous-generator finalizer closes the generator:
\* GeneratorExit is raised at the yield and the finally clause runs
Finalize(p) ==
    /\ pc[p] = "abandoned"
    /\ Finally(p)

\* faulty variant: a woken waiter that is cancelled keeps the slot it was
\* handed
CancelWaitingKeepsSlot(p) ==
    /\ pc[p] = "waiting"
    /\ sem_waiters' = RemoveWaiter(sem_waiters, p)
    /\ sem_granted' = sem_granted \ {p}
    /\ pc' = [pc EXCEPT ![p] = "cancelled"]
    /\ UNCHANGED <<sem_value, request_counter, active_requests, call, holders,
                   released, issued, callVars, pureVars>>

\* the task of a caller suspended in semaphore.acquire() is cancelled
\* (lines 85, 151, 221): CancelledError leaves Semaphore.acquire, which
\* removes the waiter and, when the waiter had already been handed a slot,
\* gives the slot back and wakes the next waiter; _acquire_slot is called
\* before the try, so no finally clause runs
CancelWaiting(p) ==
    /\ pc[p] = "waiting"
    /\ LET ws == RemoveWaiter(sem_waiters, p)
           gr == sem_granted \ {p}
           r  == IF p \in sem_granted THEN WakeUpNext(sem_value + 1, ws, gr)
                 ELSE <<sem_value, gr>>
       IN  /\ sem_waiters' = ws
           /\ sem_value' = r[1]
           /\ sem_granted' = r[2]
    /\ pc' = [pc EXCEPT ![p] = "cancelled"]
    /\ UNCHANGED <<request_counter, active_requests, call, holders, released,
                   issued, callVars, pureVars>>

(***************************************************************************)
(* Texts.  A text is a sequence of characters of a small alphabet:         *)
(*   "{" "}"  braces            "k"  one member of a JSON object           *)
(*   "1"      a JSON scalar     "p"  prose (never part of JSON)            *)
(*   " "      whitespace        "~"  stands for the backtick of a markdown  *)
(*                                   fence (a TLA+ string cannot hold one)  *)
(* json.loads accepts, between optional whitespace, the scalar "1" or an   *)
(* object: "{", then members ("k" or a nested object), then "}".           *)
(***************************************************************************)
Chars == {"{", "}", "k", "1", "p", " "}

Tick == "~"
\* stands for the word json that may follow an opening fence
JsonTag == "j"

RemoveWs(t) == SelectSeq(t, LAMBDA c : c # " ")

RECURSIVE LStrip(_)
LStrip(t) == IF t # <<>> /\ Head(t) = " " THEN LStrip(Tail(t)) ELSE t

RECURSIVE RStrip(_)
RStrip(t) ==
    IF t # <<>> /\ t[Len(t)] = " " THEN RStrip(SubSeq(t, 1, Len(t) - 1)) ELSE t

\* str.strip()
Strip(t) == RStrip(LStrip(t))

\* str.find(c): 0 when absent
Find(t, c) ==
    LET idx == {i \in 1..Len(t) : t[i] = c}
    IN  IF idx = {} THEN 0 ELSE CHOOSE i \in idx : \A j \in idx : i <= j

\* str.rfind(c): 0 when absent
RFind(t, c) ==
    LET idx == {i \in 1..Len(t) : t[i] = c}
    IN  IF idx = {} THEN 0 ELSE CHOOSE i \in idx : \A j \in idx : i >= j

\* brace depth after the first i characters
Depth(t, i) ==
    Cardinality({j \in 1..i : t[j] = "{"}) - Cardinality({j \in 1..i : t[j] = "}"})

IsJsonObjectText(u) ==
    /\ Len(u) >= 2
    /\ u[1] = "{"
    /\ \A i \in 1..Len(u) : u[i] \in {"{", "}", "k"}
    /\ \A i \in 1..(Len(u) - 1) : Depth(u, i) >= 1
    /\ Depth(u, Len(u)) = 0

\* whether json.loads(t) succeeds
IsJson(t) == LET u == RemoveWs(t) IN u = <<"1">> \/ IsJsonObjectText(u)

NoValue == [type |-> "none", canon |-> <<>>]

\* the value json.loads(t) returns for a text it accepts
JsonValue(t) ==
    LET u == RemoveWs(t)
    IN  [type |-> IF u = <<"1">> THEN "scalar" ELSE "object", canon |-> u]

\* json.loads: ok is FALSE when it raises JSONDecodeError
JsonLoads(t) ==
    IF IsJson(t) THEN [ok |-> TRUE, value |-> JsonValue(t)]
    ELSE [ok |-> FALSE, value |-> NoValue]

\* the [:200] of the raw-response preview (ollama_service.py:364)
PreviewLimit == 200

Preview(t) ==
    IF Len(t) > PreviewLimit THEN SubSeq(t, 1, PreviewLimit) \o <<".", ".", ".">>
    ELSE t

RECURSIVE StripTagged(_)
\* re.sub(r'```json\s*', '', t) (line 340): every fence followed by the word
\* json goes, with the whitespace that follows it
StripTagged(t) ==
    IF t = <<>> THEN <<>>
    ELSE IF Len(t) >= 4 /\ SubSeq(t, 1, 4) = <<Tick, Tick, Tick, JsonTag>>
         THEN StripTagged(LStrip(SubSeq(t, 5, Len(t))))
    ELSE <<Head(t)>> \o StripTagged(Tail(t))

RECURSIVE StripTicks(_)
\* the re.sub calls of _clean_json_response (lines 341-342): every backtick
\* goes, with the whitespace that follows it
StripTicks(t) ==
    IF t = <<>> THEN <<>>
    ELSE IF Head(t) = Tick THEN StripTicks(LStrip(Tail(t)))
    ELSE <<Head(t)>> \o StripTicks(Tail(t))

\* the JSON text of json.dumps({"error": ..., "raw_response": ...}) (lines 362-365)
DefaultStructure(t) == [form |-> "default", text |-> Preview(t)]

\* OllamaService._clean_json_response (ollama_service.py:336-365): the JSON
\* text it returns
CleanJsonResponse(response_text) ==
    LET t == StripTicks(StripTagged(response_text))
        start_idx == Find(t, "{")
        end_idx == RFind(t, "}")
    IN  IF start_idx # 0 /\ end_idx # 0 /\ end_idx > start_idx
        THEN LET json_str == SubSeq(t, start_idx, end_idx)
             IN  IF IsJson(json_str) THEN [form |-> "text", text |-> json_str]
                 ELSE DefaultStructure(t)
        ELSE IF IsJson(Strip(t)) THEN [form |-> "text", text |-> Strip(t)]
             ELSE DefaultStructure(t)

\* json.loads of what _clean_json_response returned (lines 188, 272)
LoadCleaned(c) ==
    IF c.form = "default"
    THEN [ok |-> TRUE, value |-> [type |-> "error_object", canon |-> c.text]]
    ELSE JsonLoads(c.text)

(***************************************************************************)
(* Response lines of the backend and the events of a stream.               *)
(***************************************************************************)
\* the `response` fragments a line may carry
Frags == {<<>>, <<Tick, "{">>, <<"k", "}">>}

ObjLine(h, r, d) == [kind |-> "obj", hasResp |-> h, resp |-> r, done |-> d]
BadLine == [kind |-> "bad", hasResp |-> FALSE, resp |-> <<>>, done |-> FALSE]
BlankLine == [kind |-> "blank", hasResp |-> FALSE, resp |-> <<>>, done |-> FALSE]
\* a line that is valid JSON and not an object (a number)
NonObjLine == [kind |-> "nonobj", hasResp |-> FALSE, resp |-> <<>>, done |-> FALSE]

Lines ==
    {ObjLine(TRUE, r, d) : r \in Frags, d \in BOOLEAN}
        \cup {ObjLine(FALSE, <<>>, d) : d \in BOOLEAN}
        \cup {BadLine, BlankLine, NonObjLine}

TextContent(t) == [kind |-> "text", text |-> t, json |-> NoValue, msg |-> ""]
JsonContent(v) == [kind |-> "json", text |-> <<>>, json |-> v, msg |-> ""]
MsgContent(m) == [kind |-> "msg", text |-> <<>>, json |-> NoValue, msg |-> m]

TokenEvent(t, acc) == [type |-> "token", content |-> TextContent(t), accumulated |-> acc]
FinalEvent(c) == [type |-> "final", content |-> c, accumulated |-> <<>>]
ErrorEvent(m) == [type |-> "error", content |-> MsgContent(m), accumulated |-> <<>>]

StepResult(acc, evs, stop, raised) ==
    [acc |-> acc, evs |-> evs, stop |-> stop, raised |-> raised]

\* faulty variant: a line that does not parse ends the loop
OnMalformedBreak(acc) == StepResult(acc, <<>>, TRUE, FALSE)

\* a line json.loads rejects: `except json.JSONDecodeError: continue`
\* (ollama_service.py:294-295, ollama_client.py:73-75)
OnMalformed(acc) == StepResult(acc, <<>>, FALSE, FALSE)

\* the final yield of OllamaService.generate_stream (lines 268-292)
SvcFinal(acc) ==
    LET parsed == LoadCleaned(CleanJsonResponse(acc))
    IN  IF parsed.ok THEN FinalEvent(JsonContent(parsed.value))
        ELSE ErrorEvent("Failed to parse JSON response")

\* body of the `async for line` loop of OllamaService.generate_stream
\* (ollama_service.py:251-295)
SvcLineStep(acc, l) ==
    IF l.kind = "blank" THEN StepResult(acc, <<>>, FALSE, FALSE)
    ELSE IF l.kind = "bad" THEN OnMalformed(acc)
    ELSE IF l.kind = "nonobj" THEN StepResult(acc, <<>>, FALSE, TRUE)
    ELSE LET acc1 == IF l.hasResp THEN acc \o l.resp ELSE acc
             tok == IF l.hasResp THEN <<TokenEvent(l.resp, acc1)>> ELSE <<>>
             fin == IF l.done THEN <<SvcFinal(acc1)>> ELSE <<>>
         IN  StepResult(acc1, tok \o fin, l.done, FALSE)

\* faulty variant: the text of the completion line is appended to the final
\* content without a token event for it
CliLineStepDoneAppends(acc, l) ==
    IF l.kind = "blank" THEN StepResult(acc, <<>>, FALSE, FALSE)
    ELSE IF l.kind = "bad" THEN OnMalformed(acc)
    ELSE IF l.kind = "nonobj" THEN StepResult(acc, <<>>, FALSE, TRUE)
    ELSE IF l.hasResp /\ ~l.done
         THEN StepResult(acc \o l.resp, <<TokenEvent(l.resp, acc \o l.resp)>>, FALSE, FALSE)
    ELSE IF l.done
         THEN StepResult(acc \o l.resp, <<FinalEvent(TextContent(acc \o l.resp))>>, TRUE, FALSE)
    ELSE StepResult(acc, <<>>, FALSE, FALSE)

\* body of the `async for line` loop of OllamaClient.generate_stream
\* (ollama_client.py:43-75)
CliLineStep(acc, l) ==
    IF l.kind = "blank" THEN StepResult(acc, <<>>, FALSE, FALSE)
    ELSE IF l.kind = "bad" THEN OnMalformed(acc)
    ELSE IF l.kind = "nonobj" THEN StepResult(acc, <<>>, FALSE, TRUE)
    ELSE IF l.hasResp /\ ~l.done
         THEN StepResult(acc \o l.resp, <<TokenEvent(l.resp, acc \o l.resp)>>, FALSE, FALSE)
    ELSE IF l.done
         THEN StepResult(acc, <<FinalEvent(TextContent(acc))>>, TRUE, FALSE)
    ELSE StepResult(acc, <<>>, FALSE, FALSE)

LineStep(c, acc, l) ==
    IF c = "svc_stream" THEN SvcLineStep(acc, l) ELSE CliLineStep(acc, l)

(***************************************************************************)
(* SpecCall: one call, in detail.                                          *)
(***************************************************************************)
Calls == {"svc_generate", "svc_stream", "cli_generate", "cli_stream"}

IsSvc(c) == c \in {"svc_generate", "svc_stream"}
IsStream(c) == c \in {"svc_stream", "cli_stream"}
IsGenerate(c) == c \in {"svc_generate", "cli_generate"}

\* httpx.ConnectError, httpx.TimeoutException, httpx.RemoteProtocolError and
\* any other exception of the transport
FailKinds == {"connect", "timeout", "protocol", "other"}

NoFail == [kind |-> "none", at |-> "none"]
NoPending == [evs |-> <<>>, then |-> "none"]
NoContent == MsgContent("")

Outcome(kind, type, status, tag, value) ==
    [kind |-> kind, type |-> type, status |-> status, tag |-> tag, value |-> value]

NoOutcome == Outcome("none", "", 0, "", NoContent)
Exhausted == Outcome("exhausted", "", 0, "", NoContent)
Closed == Outcome("closed", "", 0, "", NoContent)
Raise(type, status, tag) == Outcome("raise", type, status, tag, NoContent)
Return(value) == Outcome("return", "", 0, "", value)

CallInit ==
    /\ cCall = "none"
    /\ cPc = "start"
    /\ cSent = <<>>
    /\ cEvents = <<>>
    /\ cAcc = <<>>
    /\ cPending = NoPending
    /\ cOutcome = NoOutcome
    /\ cFail = NoFail
    /\ cAcquired = 0
    /\ cReleased = 0
    /\ cAbandonedAt = "none"

\* the except clauses of OllamaService.generate_stream (lines 305-332)
SvcStreamHandler(k) ==
    CASE k = "connect" -> "Connection failed"
      [] k = "timeout" -> "Request timeout"
      [] k = "protocol" -> "Connection protocol error"
      [] OTHER -> "Streaming request failed"

\* the except clauses of OllamaClient.generate_stream for a transport
\* failure (lines 77-84 and 94-101)
CliStreamHandler(k) ==
    IF k = "timeout" THEN "Model request timed out" ELSE "Model call failed"

StreamHandler(c, k) ==
    IF c = "svc_stream" THEN SvcStreamHandler(k) ELSE CliStreamHandler(k)

\* faulty variant: only the named httpx exceptions are caught
CatchesOnlyNamed(c, k) == k # "other"

\* whether an except clause of generate_stream catches transport failure k:
\* the last clause is `except Exception` (ollama_service.py:326,
\* ollama_client.py:94)
Catches(c, k) == TRUE

ExcType(k) ==
    CASE k = "connect" -> "ConnectError"
      [] k = "timeout" -> "TimeoutException"
      [] k = "protocol" -> "RemoteProtocolError"
      [] OTHER -> "Exception"

\* faulty variant: the slot is kept when the generator is closed
FinallyNotOnClose(exit) == exit # "closed"

\* faulty variant: the slot is released only after the try body completes
FinallyOnlyOnSuccess(exit) == exit \in {"return", "exhausted"}

\* the exits of a call on which its finally clause runs _release_slot
\* (ollama_service.py:216-217 and 333-334): all of them
FinallyRuns(exit) == TRUE

\* the call is over: the finally clause, then the caller sees `outcome`
EndCall(outcome) ==
    /\ IF IsSvc(cCall) /\ FinallyRuns(outcome.kind)
       THEN ReleaseSlot /\ cReleased' = cReleased + 1
       ELSE UNCHANGED <<svcVars, cReleased>>
    /\ cPc' = "done"
    /\ cOutcome' = outcome
    /\ cPending' = NoPending

\* the generator yields the first of evs and suspends; `then` is where it
\* continues once every event of evs was taken
YieldThen(evs, then) ==
    /\ cEvents' = Append(cEvents, Head(evs))
    /\ cPending' = [evs |-> Tail(evs), then |-> then]
    /\ cPc' = "yield"

\* exception k reaches the except clauses of generate_stream: the matching
\* clause yields one error event, after which only the finally clause is left
OnException(k) ==
    IF Catches(cCall, k)
    THEN /\ YieldThen(<<ErrorEvent(StreamHandler(cCall, k))>>, "finally")
         /\ UNCHANGED <<svcVars, cOutcome, cReleased>>
    ELSE /\ EndCall(Raise(ExcType(k), 0, ""))
         /\ UNCHANGED cEvents

\* the method is invoked; no other call holds a slot (lines 151, 221)
CallStart(c) ==
    /\ cPc = "start"
    /\ cCall' = c
    /\ IF IsSvc(c)
       THEN AcquireSlotFast /\ cAcquired' = cAcquired + 1
       ELSE UNCHANGED <<svcVars, cAcquired>>
    /\ cPc' = IF IsGenerate(c) THEN "post" ELSE "connect"
    /\ UNCHANGED <<cSent, cEvents, cAcc, cPending, cOutcome, cFail, cReleased,
                   cAbandonedAt, procVars, pureVars>>

\* client.stream(...) answers with a status, or fails
\* (ollama_service.py:248-249, 296-303; ollama_client.py:39-41, 85-93)
StreamConnect(r) ==
    /\ cPc = "connect"
    /\ IF r = "ok"
       THEN /\ cPc' = "read"
            /\ UNCHANGED <<svcVars, cEvents, cPending, cOutcome, cFail, cReleased>>
       ELSE IF r = "status"
       THEN /\ cFail' = [kind |-> "status", at |-> "connect"]
            /\ IF cCall = "svc_stream"
               THEN /\ YieldThen(<<ErrorEvent("Generation failed")>>, "close")
                    /\ UNCHANGED <<svcVars, cOutcome, cReleased>>
               \* raise_for_status raises HTTPStatusError; its handler formats
               \* e.response.text of a streamed response that was never read,
               \* which raises httpx.ResponseNotRead inside the handler
               ELSE /\ EndCall(Raise("ResponseNotRead", 0, ""))
                    /\ UNCHANGED cEvents
       ELSE /\ cFail' = [kind |-> r, at |-> "connect"]
            /\ OnException(r)
    /\ UNCHANGED <<cCall, cSent, cAcc, cAcquired, cAbandonedAt, procVars, pureVars>>

\* response.aiter_lines() delivers a line
StreamLine(l) ==
    /\ cPc = "read"
    /\ Len(cSent) < MaxLines
    /\ cSent' = Append(cSent, l)
    /\ LET st == LineStep(cCall, cAcc, l)
       IN  /\ cAcc' = st.acc
           /\ IF st.raised
              THEN OnException("other")
              ELSE /\ IF st.evs = <<>>
                      THEN /\ cPc' = IF st.stop THEN "close" ELSE "read"
                           /\ UNCHANGED <<cEvents, cPending>>
                      ELSE YieldThen(st.evs, IF st.stop THEN "close" ELSE "read")
                   /\ UNCHANGED <<svcVars, cOutcome, cReleased>>
    /\ UNCHANGED <<cCall, cFail, cAcquired, cAbandonedAt, procVars, pureVars>>

\* the backend closes the stream
StreamEof ==
    /\ cPc = "read"
    /\ cPc' = "close"
    /\ UNCHANGED <<svcVars, cCall, cSent, cEvents, cAcc, cPending, cOutcome, cFail,
                   cAcquired, cReleased, cAbandonedAt, procVars, pureVars>>

\* reading the next line fails
StreamFail(k) ==
    /\ cPc = "read"
    /\ cFail' = [kind |-> k, at |-> "read"]
    /\ OnException(k)
    /\ UNCHANGED <<cCall, cSent, cAcc, cAcquired, cAbandonedAt, procVars, pureVars>>

\* leaving `async with client.stream(...)`: the response is closed, or
\* closing it fails
StreamClose(r) ==
    /\ cPc = "close"
    /\ IF r = "ok"
       THEN /\ EndCall(Exhausted)
            /\ UNCHANGED <<cEvents, cFail>>
       ELSE /\ cFail' = [kind |-> r, at |-> "close"]
            /\ OnException(r)
    /\ UNCHANGED <<cCall, cSent, cAcc, cAcquired, cAbandonedAt, procVars, pureVars>>

\* the consumer asks for the next event
ConsumerNext ==
    /\ cPc = "yield"
    /\ IF cPending.evs # <<>>
       THEN /\ YieldThen(cPending.evs, cPending.then)
            /\ UNCHANGED <<svcVars, cOutcome, cReleased>>
       ELSE IF cPending.then = "finally"
       THEN /\ EndCall(Exhausted)
            /\ UNCHANGED cEvents
       ELSE /\ cPc' = cPending.then
            /\ cPending' = NoPending
            /\ UNCHANGED <<svcVars, cEvents, cOutcome, cReleased>>
    /\ UNCHANGED <<cCall, cSent, cAcc, cFail, cAcquired, cAbandonedAt,
                   procVars, pureVars>>

\* the consumer stops iterating and drops the suspended generator
ConsumerAbandon ==
    /\ cPc = "yield"
    /\ cPc' = "abandoned"
    /\ cAbandonedAt' = IF cPending.then = "finally" THEN "handler" ELSE "body"
    /\ UNCHANGED <<svcVars, cCall, cSent, cEvents, cAcc, cPending, cOutcome, cFail,
                   cAcquired, cReleased, procVars, pureVars>>

\* the event loop's asynchronous-generator finalizer runs aclose():
\* GeneratorExit is raised at the yield.  Inside `async with` the response
\* is closed first; if that fails, an except clause yields, aclose() fails
\* with RuntimeError and the generator stays suspended in that clause.
CallFinalize(closeOk) ==
    /\ cPc = "abandoned"
    /\ IF cAbandonedAt = "body" /\ ~closeOk
       THEN /\ cPc' = "ignored_exit"
            /\ UNCHANGED <<svcVars, cPending, cOutcome, cReleased>>
       ELSE EndCall(Closed)
    /\ UNCHANGED <<cCall, cSent, cEvents, cAcc, cFail, cAcquired, cAbandonedAt,
                   procVars, pureVars>>

\* the generator object is freed: GeneratorExit once more, at the yield of
\* the except clause, and the finally clause runs
CallDealloc ==
    /\ cPc = "ignored_exit"
    /\ EndCall(Closed)
    /\ UNCHANGED <<cCall, cSent, cEvents, cAcc, cFail, cAcquired, cAbandonedAt,
                   procVars, pureVars>>

\* the task is cancelled while the call awaits the network: CancelledError,
\* which no except clause catches
CancelAwait ==
    /\ cPc \in {"connect", "read", "close", "post"}
    /\ EndCall(Raise("CancelledError", 0, ""))
    /\ UNCHANGED <<cCall, cSent, cEvents, cAcc, cFail, cAcquired, cAbandonedAt,
                   procVars, pureVars>>

(***************************************************************************)
(* The single-shot calls.                                                  *)
(***************************************************************************)
\* the `response` field of a 200 answer
GenTexts == {<<>>, <<"{", "k", "}">>, <<"p">>, <<" ", "1">>}

\* what client.post may produce: a 200 whose body is a JSON object with a
\* `response` text, a 200 whose body is not JSON, a 200 whose body is JSON
\* and not an object, another status, or a transport failure
Answer(r, body, text) == [r |-> r, body |-> body, text |-> text]

FailAnswer(r) == Answer(r, "none", <<>>)

Answers ==
    {Answer("ok", "object", t) : t \in GenTexts}
        \cup {Answer("ok", "not_json", <<>>), Answer("ok", "not_object", <<>>)}
        \cup {FailAnswer(r) : r \in FailKinds \cup {"status"}}

\* faulty variant: no except clause for httpx.RemoteProtocolError
SvcGenerateNoProtocolClause(a) ==
    IF a.r = "ok" /\ a.body = "object"
    THEN Return(JsonContent(LoadCleaned(CleanJsonResponse(a.text)).value))
    ELSE CASE a.r = "connect" -> Raise("Exception", 0, "Connection failed")
           [] a.r = "timeout" -> Raise("Exception", 0, "Request timeout")
           [] OTHER -> Raise("Exception", 0, "Generate request failed")

\* OllamaService.generate from the answer of client.post to the return or
\* the raise (ollama_service.py:178-215).  The Exception raised for a status
\* other than 200 is raised inside the try and caught by `except Exception`.
SvcGenerateOutcome(a) ==
    IF a.r = "ok" /\ a.body = "object"
    THEN Return(JsonContent(LoadCleaned(CleanJsonResponse(a.text)).value))
    ELSE CASE a.r = "connect" -> Raise("Exception", 0, "Connection failed")
           [] a.r = "timeout" -> Raise("Exception", 0, "Request timeout")
           [] a.r = "protocol" -> Raise("Exception", 0, "Connection protocol error")
           [] OTHER -> Raise("Exception", 0, "Generate request failed")

\* OllamaClient.generate (ollama_client.py:123-143)
CliGenerateOutcome(a) ==
    IF a.r = "ok" /\ a.body = "object"
    THEN Return(TextContent(Strip(a.text)))
    ELSE CASE a.r = "timeout" -> Raise("HTTPException", 504, "Model request timed out")
           [] a.r = "status" -> Raise("HTTPException", 502, "Model API error")
           [] OTHER -> Raise("HTTPException", 500, "Model call failed")

GenerateOutcome(c, a) ==
    IF c = "svc_generate" THEN SvcGenerateOutcome(a) ELSE CliGenerateOutcome(a)

\* client.post answers or fails; the rest of generate runs without suspending
GeneratePost(a) ==
    /\ cPc = "post"
    /\ cFail' = IF a.r = "ok" THEN cFail ELSE [kind |-> a.r, at |-> "post"]
    /\ EndCall(GenerateOutcome(cCall, a))
    /\ UNCHANGED <<cCall, cSent, cEvents, cAcc, cAcquired, cAbandonedAt, procVars, pureVars>>

(***************************************************************************)
(* The JSON extractors.                                                    *)
(***************************************************************************)
Extractors == {"extract_json_from_response", "extract_json_from_text"}

\* what an extractor hands back: kind is "empty" for {}, "parsed" for the
\* value of json.loads, "sentinel" for the error payload, "raise" for an
\* exception
XResult(kind, value, error, raw, exc) ==
    [kind |-> kind, value |-> value, error |-> error, raw_response |-> raw, exc |-> exc]

NoResult == XResult("none", NoValue, "", <<>>, "")
Parsed(t) == XResult("parsed", JsonValue(t), "", <<>>, "")

RECURSIVE SkipPlain(_, _)
\* the index of the first brace of t at or after i (Len(t) + 1: none)
SkipPlain(t, i) ==
    IF i > Len(t) \/ t[i] \in {"{", "}"} THEN i ELSE SkipPlain(t, i + 1)

RECURSIVE MatchGroups(_, _)
\* r'(?:\{[^{}]*\}[^{}]*)*\}' from index i, which holds a brace: the index
\* of the closing brace of the match, 0 when there is none
MatchGroups(t, i) ==
    IF i > Len(t) THEN 0
    ELSE IF t[i] = "}" THEN i
    ELSE LET j == SkipPlain(t, i + 1)
         IN  IF j > Len(t) \/ t[j] = "{" THEN 0
             ELSE MatchGroups(t, SkipPlain(t, j + 1))

\* r'\{[^{}]*(?:\{[^{}]*\}[^{}]*)*\}' anchored at the "{" at index i: the
\* index of the last character of the match, 0 when there is none
MatchNested(t, i) == MatchGroups(t, SkipPlain(t, i + 1))

RECURSIVE FindAllNested(_, _)
\* re.findall of that pattern from index i on: the matches, left to right
FindAllNested(t, i) ==
    IF i > Len(t) THEN <<>>
    ELSE IF t[i] # "{" THEN FindAllNested(t, i + 1)
    ELSE LET e == MatchNested(t, i)
         IN  IF e = 0 THEN FindAllNested(t, i + 1)
             ELSE <<SubSeq(t, i, e)>> \o FindAllNested(t, e + 1)

\* re.findall(r'\{.*\}', t, re.DOTALL): first "{" to last "}"
FindAllGreedy(t) ==
    LET s == Find(t, "{")
        e == RFind(t, "}")
    IN  IF s # 0 /\ e > s THEN <<SubSeq(t, s, e)>> ELSE <<>>

\* the first of the candidates that json.loads accepts, <<>> when none is
FirstLoadable(cands) ==
    LET ok == {i \in 1..Len(cands) : IsJson(Strip(cands[i]))}
    IN  IF ok = {} THEN <<>>
        ELSE <<Strip(cands[CHOOSE i \in ok : \A j \in ok : i <= j])>>

\* faulty variant: a failed extraction raises
ExtractionFailedRaises(response_text) == XResult("raise", NoValue, "", <<>>, "ValueError")

\* the payload returned when no strategy parsed (badge_generator.py:92)
ExtractionFailed(response_text) ==
    XResult("sentinel", NoValue, "json_extraction_failed", response_text, "")

\* extract_json_from_response (src/app/services/badge_generator.py:67-92)
ExtractJsonFromResponse(response_text) ==
    IF Strip(response_text) = <<>> THEN XResult("empty", NoValue, "", <<>>, "")
    ELSE IF IsJson(Strip(response_text)) THEN Parsed(Strip(response_text))
    ELSE LET hit == FirstLoadable(FindAllNested(response_text, 1)
                                    \o FindAllGreedy(response_text))
         IN  IF hit # <<>> THEN Parsed(hit[1])
             ELSE ExtractionFailed(response_text)

\* find_balanced_json (src/badge-generator/main.py:736-749): <<>> for None
FindBalancedJson(text) ==
    LET start == Find(text, "{")
        ends == {i \in start..Len(text) : text[i] = "}" /\ Depth(text, i) = Depth(text, start - 1)}
    IN  IF start = 0 \/ ends = {} THEN <<>>
        ELSE SubSeq(text, start, CHOOSE i \in ends : \A j \in ends : i <= j)

\* extract_json_from_text (src/badge-generator/main.py:751-782)
ExtractJsonFromText(text) ==
    IF text = <<>> THEN XResult("raise", NoValue, "", <<>>, "ValueError")
    ELSE LET s == Strip(text)
             candidate == FindBalancedJson(s)
             first == Find(s, "{")
             last == RFind(s, "}")
         IN  IF IsJson(s) THEN Parsed(s)
             ELSE IF candidate # <<>> /\ IsJson(candidate) THEN Parsed(candidate)
             ELSE IF first # 0 /\ last # 0 /\ last > first
                     /\ IsJson(SubSeq(s, first, last))
                  THEN Parsed(SubSeq(s, first, last))
             ELSE XResult("raise", NoValue, "", <<>>, "ValueError")

RECURSIVE SkipWs(_, _)
\* the index after the whitespace that starts at i (the \s* of a pattern)
SkipWs(t, i) == IF i <= Len(t) /\ t[i] = " " THEN SkipWs(t, i + 1) ELSE i

\* n backticks start at index i
TicksAt(t, i, n) == i + n - 1 <= Len(t) /\ \A j \in i..(i + n - 1) : t[j] = Tick

\* an opening fence starts at index i: n backticks, then the word json when
\* tag.  The index after it, 0 when there is none.
FenceOpen(t, i, n, tag) ==
    IF ~TicksAt(t, i, n) THEN 0
    ELSE IF ~tag THEN i + n
    ELSE IF i + n <= Len(t) /\ t[i + n] = JsonTag THEN i + n + 1
    ELSE 0

\* the closing fence after the "}" at index e: the index of its last
\* backtick, 0 when there is none
FenceClose(t, e, n, ws) ==
    LET c == IF ws THEN SkipWs(t, e + 1) ELSE e + 1
    IN  IF TicksAt(t, c, n) THEN c + n - 1 ELSE 0

\* a fenced pattern of badge_model.extract_json_from_response anchored at
\* index i: the opening fence, \s* when ws, the group (\{.*?\}) up to the
\* first "}" that a closing fence follows.  <<group start, group end, match
\* end>>, zeros when there is no match.
MatchFenced(t, i, n, ws, tag) ==
    IF FenceOpen(t, i, n, tag) = 0 THEN <<0, 0, 0>>
    ELSE LET b == IF ws THEN SkipWs(t, FenceOpen(t, i, n, tag))
                   ELSE FenceOpen(t, i, n, tag)
         IN  IF b > Len(t) \/ t[b] # "{" THEN <<0, 0, 0>>
             ELSE LET es == {e \in (b + 1)..Len(t) :
                                t[e] = "}" /\ FenceClose(t, e, n, ws) # 0}
                  IN  IF es = {} THEN <<0, 0, 0>>
                      ELSE LET e == CHOOSE x \in es : \A y \in es : x <= y
                           IN  <<b, e, FenceClose(t, e, n, ws)>>

RECURSIVE FindAllFenced(_, _, _, _, _)
\* re.findall of a fenced pattern from index i on: the groups, left to right
FindAllFenced(t, i, n, ws, tag) ==
    IF i > Len(t) THEN <<>>
    ELSE LET m == MatchFenced(t, i, n, ws, tag)
         IN  IF m[1] = 0 THEN FindAllFenced(t, i + 1, n, ws, tag)
             ELSE <<SubSeq(t, m[1], m[2])>> \o FindAllFenced(t, m[3] + 1, n, ws, tag)

\* extract_json_from_response of src/app/models/badge_model.py (385-426):
\* json.loads of the text as it is, the four patterns in their order, the
\* first-to-last span, {}
ExtractModelResponse(response_text) ==
    IF response_text = <<>> THEN XResult("empty", NoValue, "", <<>>, "")
    ELSE IF IsJson(response_text) THEN Parsed(response_text)
    ELSE LET hit == FirstLoadable(FindAllFenced(response_text, 1, 3, TRUE, TRUE)
                                    \o FindAllFenced(response_text, 1, 3, TRUE, FALSE)
                                    \o FindAllFenced(response_text, 1, 1, FALSE, FALSE)
                                    \o FindAllNested(response_text, 1))
             start_idx == Find(response_text, "{")
             end_idx == RFind(response_text, "}")
         IN  IF hit # <<>> THEN Parsed(hit[1])
             ELSE IF start_idx # 0 /\ end_idx # 0 /\ end_idx > start_idx
                     /\ IsJson(SubSeq(response_text, start_idx, end_idx))
                  THEN Parsed(SubSeq(response_text, start_idx, end_idx))
             ELSE XResult("empty", NoValue, "", <<>>, "")

ExtractIdle ==
    /\ xText = <<>>
    /\ xObj = <<>>
    /\ xFn = "none"
    /\ xResult = NoResult

\* the texts handed to the extractors
Texts == UNION {[1..n -> Chars] : n \in 0..MaxLen}

ExtractResponse ==
    /\ xFn = "none"
    /\ xFn' = "extract_json_from_response"
    /\ xResult' = ExtractJsonFromResponse(xText)
    /\ UNCHANGED <<xText, xObj, svcVars, procVars, callVars, payloadVars, iconVars, normVars, moreVars>>

ExtractText ==
    /\ xFn = "none"
    /\ xFn' = "extract_json_from_text"
    /\ xResult' = ExtractJsonFromText(xText)
    /\ UNCHANGED <<xText, xObj, svcVars, procVars, callVars, payloadVars, iconVars, normVars, moreVars>>

ExtractModel ==
    /\ xFn = "none"
    /\ xFn' = "badge_model.extract_json_from_response"
    /\ xResult' = ExtractModelResponse(xText)
    /\ UNCHANGED <<xText, xObj, svcVars, procVars, callVars, payloadVars, iconVars, normVars, moreVars>>

\* deepest nesting of the objects of SpecBalanced, counted from 0
MaxDepth == 2

RECURSIVE Nest(_)
\* JSON objects nested up to d levels below the outer one
Nest(d) ==
    IF d = 0 THEN {<<"{", "}">>, <<"{", "k", "}">>}
    ELSE Nest(d - 1) \cup
         {<<"{">> \o pre \o o \o <<"}">> : pre \in {<<>>, <<"k">>}, o \in Nest(d - 1)}

\* prose or an opening fence before the object
Prefixes ==
    {<<>>, <<"p">>, <<"p", " ">>, <<Tick>>, <<Tick, Tick, Tick>>,
     <<Tick, Tick, Tick, JsonTag>>}

\* prose, with or without braces, or a closing fence after the object
Suffixes ==
    {<<>>, <<"p">>, <<" ", "p", "{", "p", "}">>, <<"p", "}">>, <<Tick>>, <<Tick, Tick, Tick>>}

(***************************************************************************)
(* Badge payloads: what the extractors and the two generation routes hand  *)
(* on for a model output.                                                  *)
(***************************************************************************)
\* the value under one key of a payload: t is "absent" for a missing key,
\* "str", "dict" or "null"; s is the string, or the narrative of a dict;
\* narrative says whether a dict has the key narrative
Fld(t, s, n) == [t |-> t, s |-> s, narrative |-> n]
Absent == Fld("absent", "", FALSE)
Str(s) == Fld("str", s, FALSE)
Mapping(n, s) == Fld("dict", s, n)
Null == Fld("null", "", FALSE)

\* a dict with the keys of the badge schema and the key error
Payload(bn, bd, cr, err) ==
    [badge_name |-> bn, badge_description |-> bd, criteria |-> cr, error |-> err]

EmptyDict == Payload(Absent, Absent, Absent, FALSE)

\* what a path hands on: kind is "dict" for a returned dict, "value" for a
\* returned JSON value that is no dict, "raise" for an exception, "http" for
\* an HTTPException, "error_chunk" for an error event of the stream, "badge"
\* for a BadgeValidated
POut(kind, d, detail) == [kind |-> kind, d |-> d, detail |-> detail]
NoPOut == POut("none", EmptyDict, "")

\* the result x of an extractor as a payload, fields being the members of
\* the object the text holds
AsPayload(x, fields) ==
    IF x.kind = "raise" THEN POut("raise", EmptyDict, x.exc)
    ELSE IF x.kind = "empty" THEN POut("dict", EmptyDict, "")
    ELSE IF x.kind = "sentinel"
         THEN POut("dict", Payload(Absent, Absent, Absent, TRUE), x.error)
    ELSE IF x.value.type = "object" THEN POut("dict", fields, "parsed")
    ELSE POut("value", EmptyDict, "parsed")

\* dict.get(key, default)
Get(v, default) == IF v.t = "absent" THEN default ELSE v

\* _normalize_badge_json (src/app/routers/badges.py:360-373)
NormalizeBadgeJson(badge_json) ==
    IF badge_json.kind # "dict" THEN EmptyDict
    ELSE IF badge_json.d.criteria.t = "str"
         THEN [badge_json.d EXCEPT !.criteria = Mapping(TRUE, badge_json.d.criteria.s)]
    ELSE IF badge_json.d.criteria.t = "dict" THEN badge_json.d
    ELSE [badge_json.d EXCEPT !.criteria = Mapping(TRUE, "")]

\* whether BadgeValidated (src/app/models/badge.py:4-8) accepts the values
Validates(bn, bd, cr) == bn.t = "str" /\ bd.t = "str" /\ cr.t = "dict"

\* the BadgeValidated(...) call of both routes (badges.py:56-61, 479-484);
\* failed is what a ValidationError turns into
Validated(d, failed) ==
    LET bn == Get(d.badge_name, Str(""))
        bd == Get(d.badge_description, Str(""))
        cr == Get(d.criteria, Mapping(FALSE, ""))
    IN  IF Validates(bn, bd, cr) THEN POut("badge", Payload(bn, bd, cr, FALSE), "")
        ELSE failed

\* generate_badge_metadata_async (src/app/services/badge_generator.py:94-126)
\* from the model's answer on: the item assignment raises on a value that
\* is no dict
GenerateBadgeMetadata(in) ==
    LET result == AsPayload(ExtractJsonFromResponse(in.text), in.fields)
    IN  IF result.kind = "value" THEN POut("raise", EmptyDict, "TypeError")
        ELSE result

\* generate_badge (src/app/routers/badges.py:47-64, 145-149)
GenerateBadge(in) ==
    LET badge_json == GenerateBadgeMetadata(in)
    IN  IF badge_json.kind = "raise" THEN POut("http", EmptyDict, "500")
        ELSE Validated(badge_json.d, POut("http", EmptyDict, "502"))

\* str.find('```json'): 0 when absent
FindTagged(t) ==
    LET idx == {i \in 1..Len(t) : FenceOpen(t, i, 3, TRUE) # 0}
    IN  IF idx = {} THEN 0 ELSE CHOOSE i \in idx : \A j \in idx : i <= j

\* str.find('```', from): 0 when absent
FindFence(t, from) ==
    LET idx == {i \in from..Len(t) : TicksAt(t, i, 3)}
    IN  IF idx = {} THEN 0 ELSE CHOOSE i \in idx : \A j \in idx : i <= j

\* the parse of the accumulated text in generate_badge_stream
\* (src/app/routers/badges.py:448-471)
StreamParse(in) ==
    LET json_start == FindTagged(in.text)
        json_end == IF json_start = 0 THEN 0 ELSE FindFence(in.text, json_start + 4)
        json_content == Strip(SubSeq(in.text, json_start + 4, json_end - 1))
    IN  IF json_start # 0 /\ json_end # 0
        THEN IF IsJson(json_content) THEN AsPayload(Parsed(json_content), in.fields)
             ELSE POut("error_chunk", EmptyDict, "Failed to parse JSON from response")
        ELSE AsPayload(ExtractJsonFromResponse(in.text), in.fields)

\* the final chunk of generate_badge_stream (badges.py:443-493)
GenerateBadgeStream(in) ==
    LET badge_json == StreamParse(in)
    IN  IF badge_json.kind = "error_chunk" THEN badge_json
        ELSE Validated(NormalizeBadgeJson(badge_json),
                       POut("error_chunk", EmptyDict, "Badge schema validation error"))

\* parse_response (src/app/models/badge_model.py:181-219)
ParseResponse(in) ==
    LET parsed_response == LoadCleaned(CleanJsonResponse(in.text)).value
        members == IF parsed_response.type = "object" THEN in.fields
                   ELSE Payload(Absent, Absent, Absent, TRUE)
    IN  IF parsed_response.type = "scalar"
        THEN POut("dict", Payload(Str("Error Badge"),
                                  Str("An error occurred while generating the badge."),
                                  Mapping(TRUE, "Please try again."), TRUE), "")
        ELSE POut("dict",
                  Payload(Get(members.badge_name, Str("Generated Badge")),
                          Get(members.badge_description,
                              Str("A badge generated from course content.")),
                          Get(members.criteria,
                              Mapping(TRUE, "Complete the course requirements.")),
                          members.error),
                  IF parsed_response.type = "object" THEN "parsed" ELSE "")

\* the paths a model output takes
PayloadPaths ==
    {"extract_json_from_response", "extract_json_from_text",
     "badge_model.extract_json_from_response", "parse_response",
     "generate_badge", "generate_badge_stream"}

\* what path fn parsed out of the model output
PathParse(fn, in) ==
    CASE fn = "extract_json_from_response" ->
            AsPayload(ExtractJsonFromResponse(in.text), in.fields)
      [] fn = "extract_json_from_text" ->
            AsPayload(ExtractJsonFromText(in.text), in.fields)
      [] fn = "badge_model.extract_json_from_response" ->
            AsPayload(ExtractModelResponse(in.text), in.fields)
      [] fn = "parse_response" -> ParseResponse(in)
      [] fn = "generate_badge" -> GenerateBadgeMetadata(in)
      [] fn = "generate_badge_stream" -> StreamParse(in)

\* what path fn hands to its caller
PathResult(fn, in) ==
    CASE fn = "generate_badge" -> GenerateBadge(in)
      [] fn = "generate_badge_stream" -> GenerateBadgeStream(in)
      [] OTHER -> PathParse(fn, in)

\* the members a model may give the object of its answer
ModelFields ==
    {Payload(bn, bd, cr, FALSE) :
        bn \in {Absent, Str("X")}, bd \in {Absent, Str("Y")},
        cr \in {Absent, Str(""), Str("Z"), Mapping(FALSE, ""), Mapping(TRUE, "N"), Null}}

\* the object of a model answer; its members are the fields of the input
Obj == <<"{", "k", "}">>

\* model answers that hold the object
ObjectTexts ==
    {Obj, <<" ">> \o Obj, <<"p", " ">> \o Obj, Obj \o <<" ", "p">>,
     <<Tick, Tick, Tick, JsonTag, " ">> \o Obj \o <<" ", Tick, Tick, Tick>>,
     <<Tick, Tick, Tick>> \o Obj \o <<Tick, Tick, Tick>>,
     <<Tick, Tick, Tick, JsonTag, "p">> \o Obj \o <<Tick, Tick, Tick>>}

\* model answers without an object: empty, blank, a number, prose, a
\* truncated object, a fenced number, fenced prose
PlainTexts ==
    {<<>>, <<" ">>, <<" ", " ">>, <<"1">>, <<"p">>, <<"{", "k">>,
     <<Tick, Tick, Tick, JsonTag, "1", Tick, Tick, Tick>>,
     <<Tick, Tick, Tick, JsonTag, "p", Tick, Tick, Tick>>}

PayloadInputs ==
    {[text |-> t, fields |-> f] : t \in ObjectTexts, f \in ModelFields}
        \cup {[text |-> t, fields |-> EmptyDict] : t \in PlainTexts}

\* one path is applied to the model output
ApplyPath(fn) ==
    /\ pFn = "none"
    /\ pFn' = fn
    /\ pOut' = PathResult(fn, pIn)
    /\ UNCHANGED <<pIn, svcVars, procVars, callVars, extractVars, iconVars, normVars, moreVars>>

PayloadExtractResponse == ApplyPath("extract_json_from_response")
PayloadExtractText == ApplyPath("extract_json_from_text")
PayloadExtractModel == ApplyPath("badge_model.extract_json_from_response")
PayloadParseResponse == ApplyPath("parse_response")
PayloadGenerateBadge == ApplyPath("generate_badge")
PayloadGenerateBadgeStream == ApplyPath("generate_badge_stream")

(***************************************************************************)
(* Icon suggestion.  Scores are in thousandths.                            *)
(***************************************************************************)
\* longest corpus and largest top_k tried
MaxIcons == 2
MaxK == 3

\* `similarity_score < 0.15` (icon_matcher.py:727)
LowScore == 150
\* "similarity_score": 0.5 of the smart fallback (icon_matcher.py:839)
SmartScore == 500
\* 1.0, the cap of a score
FullScore == 1000

Min(a, b) == IF a < b THEN a ELSE b

Icon(name, score) == [name |-> name, score |-> score]
NoIcon == Icon("", 0)

\* names of the icons a corpus may hold
IconNames == {"atom.png", "book.png", "trophy.png"}

\* TF-IDF similarities of the query to an icon; round(score, 4) leaves
\* each of them as it is
SimScores == {0, 100, 200}

\* words a badge text may hold
Vocabulary == {"science", "research", "team", "learning"}

\* ICON_KEYWORDS (icon_matcher.py:573-610), in its order, cut down to the
\* entries and keywords that meet the vocabulary
IconKeywords ==
    <<[icon |-> "atom.png", keywords |-> {"science", "research"}],
      [icon |-> "brain.png", keywords |-> {"learning"}],
      [icon |-> "microscope.png", keywords |-> {"research"}],
      [icon |-> "teamwork.png", keywords |-> {"team"}]>>

\* the category words of _get_smart_fallback_response (icon_matcher.py:811-
\* 830), in the order of the elif chain, cut down the same way
Categories ==
    <<[words |-> {"science", "research"}, icon |-> "atom.png"],
      [words |-> {"learning"}, icon |-> "book.png"]>>

\* icon.get("keywords", []) of a corpus icon, each keyword as the words
\* preprocess_text leaves of it
CorpusKeywords(name) ==
    CASE name = "atom.png" -> {<<"science">>}
      [] name = "book.png" -> {<<"learning">>}
      [] name = "dna.png" -> {<<"life", "science">>, <<"research">>}
      [] name = "brain.png" -> {<<"science">>, <<"research">>, <<"learning">>, <<"life">>}
      [] OTHER -> {}

\* icon_words: the words of all keywords of the icon (main.py:987-990)
IconWords(name) ==
    UNION {{k[i] : i \in 1..Len(k)} : k \in CorpusKeywords(name)}

\* s[a:b] of Python for 0 <= a, 0 <= b
Slice(s, a, b) == SubSeq(s, a + 1, Min(b, Len(s)))

RECURSIVE SortDesc(_)
\* list.sort(key=score, reverse=True) and sorted(..., reverse=True): stable,
\* entries of equal score keep their order
SortDesc(s) ==
    IF s = <<>> THEN <<>>
    ELSE LET r == SortDesc(SubSeq(s, 1, Len(s) - 1))
             e == s[Len(s)]
             n == Cardinality({i \in 1..Len(r) : r[i].score >= e.score})
         IN  SubSeq(r, 1, n) \o <<e>> \o SubSeq(r, n + 1, Len(r))

\* the index arrays np.argsort may give: ascending by score.  Its default
\* sort is not stable, so the order of the indices of equal scores is the
\* choice of the build.
ArgSorts(s) ==
    {order \in [1..Len(s) -> 1..Len(s)] :
        /\ \A i, j \in 1..Len(s) : i # j => order[i] # order[j]
        /\ \A i, j \in 1..Len(s) : i < j => s[order[i]].score <= s[order[j]].score}

\* [::-1]
Reversed(s) == [i \in 1..Len(s) |-> s[Len(s) + 1 - i]]

\* what a suggestion function hands back; tiers lists the tiers that were
\* consulted, the last one chose the best icon
IOut(best, alternatives, method, tiers) ==
    [best |-> best, alternatives |-> alternatives, method |-> method, tiers |-> tiers]
NoIOut == IOut(NoIcon, <<>>, "", <<>>)

\* _get_smart_fallback_response (icon_matcher.py:799-849)
SmartFallbackResponse(words, alternatives, consulted) ==
    LET hit == {i \in 1..Len(Categories) : Categories[i].words \cap words # {}}
        first == CHOOSE i \in hit : \A j \in hit : i <= j
    IN  IOut(Icon(IF hit = {} THEN "trophy.png" ELSE Categories[first].icon, SmartScore),
             alternatives, "smart_category_fallback",
             consulted \o (IF hit = {} THEN <<"category", "default">> ELSE <<"category">>))

\* _get_fallback_response (icon_matcher.py:852-873)
FallbackResponse == IOut(Icon("trophy.png", 0), <<>>, "emergency_fallback", <<"default">>)

\* the scores dict of a keyword fallback: the icons of ICON_KEYWORDS with a
\* hit, each with its number of hits, in the order of the table
KeywordHits(words) ==
    SelectSeq([i \in 1..Len(IconKeywords) |->
                  Icon(IconKeywords[i].icon,
                       Cardinality(IconKeywords[i].keywords \cap words))],
              LAMBDA e : e.score > 0)

\* min(score / 8.0, 1.0) (icon_matcher.py:771, 776)
NormalizedScore(e) == Icon(e.name, Min((e.score * FullScore) \div 8, FullScore))

\* _get_keyword_fallback_response (icon_matcher.py:751-796)
KeywordFallbackResponse(words, top_k) ==
    LET sorted_icons == SortDesc(KeywordHits(words))
        rest == Slice(sorted_icons, 1, top_k)
    IN  IF sorted_icons # <<>>
        THEN IOut(NormalizedScore(sorted_icons[1]),
                  [i \in 1..Len(rest) |-> NormalizedScore(rest[i])],
                  "keyword_fallback", <<"keyword">>)
        ELSE SmartFallbackResponse(words, <<>>, <<"keyword">>)

\* get_icon_suggestions_for_badge (src/app/utils/icon_matcher.py:649-749)
MatcherSuggest(in) ==
    IF in.corpus # <<>>
    THEN IF in.words = {} THEN FallbackResponse
         ELSE LET similarities == SortDesc(in.corpus)
                  top_icon == similarities[1]
                  alternatives == Slice(similarities, 1, in.top_k)
              IN  IF top_icon.score < LowScore
                  THEN SmartFallbackResponse(in.words,
                                             Slice(alternatives, 0, in.top_k - 1),
                                             <<"tfidf">>)
                  ELSE IOut(top_icon, alternatives, "tfidf_batch_similarity", <<"tfidf">>)
    ELSE KeywordFallbackResponse(in.words, in.top_k)

\* score / 10 (controller_utils.py:209, 219)
TenthScore(e) == Icon(e.name, e.score * 100)

\* get_icon_suggestions_for_badge (src/app/utils/controller_utils.py:156-227)
ControllerSuggest(in) ==
    IF in.corpus # <<>>
    THEN LET results == SortDesc(in.corpus)
         IN  IOut(results[1], Slice(results, 1, in.top_k), "tfidf_similarity", <<"tfidf">>)
    ELSE LET sorted_icons == SortDesc(KeywordHits(in.words))
             rest == Slice(sorted_icons, 1, in.top_k)
         IN  IF sorted_icons # <<>>
             THEN IOut(TenthScore(sorted_icons[1]),
                       [i \in 1..Len(rest) |-> TenthScore(rest[i])],
                       "keyword_fallback", <<"keyword">>)
             ELSE IOut(TenthScore(Icon("trophy.png", 7)), <<Icon("goal.png", SmartScore)>>,
                       "keyword_fallback", <<"keyword", "default">>)

\* IconMatcher._apply_keyword_boost (src/badge-generator/main.py:972-1004)
ApplyKeywordBoost(words, similarities) ==
    [i \in 1..Len(similarities) |->
        LET keyword_overlap == Cardinality(words \cap IconWords(similarities[i].name))
        IN  IF keyword_overlap > 0
            THEN Icon(similarities[i].name,
                      Min(FullScore, similarities[i].score + Min(300, keyword_overlap * 100)))
            ELSE similarities[i]]

\* IconMatcher.suggest_icons (src/badge-generator/main.py:926-970): the list
\* it returns, as best match and the entries after it; order is what
\* np.argsort gave
MatcherClassSuggest(in, order) ==
    LET similarities == ApplyKeywordBoost(in.words, in.corpus)
        top_indices == Slice(Reversed(order), 0, in.top_k)
        results ==
            IF in.words = {} \/ in.corpus = <<>>
            THEN IF in.corpus # <<>> THEN <<Icon(in.corpus[1].name, 0)>> ELSE <<>>
            ELSE [i \in 1..Len(top_indices) |-> similarities[top_indices[i]]]
    IN  IF results = <<>> THEN IOut(NoIcon, <<>>, "", <<"default">>)
        ELSE IOut(results[1], Tail(results), "",
                  IF in.words = {} THEN <<"default">> ELSE <<"tfidf">>)

\* corpora: icons of different names, each with the similarity of the query
\* to it
Corpora ==
    {c \in UNION {[1..n -> [name : IconNames, score : SimScores]] : n \in 0..MaxIcons} :
        \A i, j \in 1..Len(c) : i # j => c[i].name # c[j].name}

\* a query without words is similar to nothing
IconInputs ==
    {in \in [corpus : Corpora, words : SUBSET Vocabulary, top_k : 1..MaxK] :
        in.words = {} => \A i \in 1..Len(in.corpus) : in.corpus[i].score = 0}

ApplySuggest(fn, out) ==
    /\ iFn = "none"
    /\ iFn' = fn
    /\ iOut' = out
    /\ UNCHANGED <<iIn, svcVars, procVars, callVars, extractVars, payloadVars, normVars, moreVars>>

\* cosine similarities up to 1.0 and icons with up to four keywords
BoostScores == {0, 500, 800, 1000}
BoostNames == {"trophy.png", "dna.png", "brain.png"}
BoostWords == {"life", "science", "research", "learning"}

BoostInputs ==
    [corpus : {c \in UNION {[1..n -> [name : BoostNames, score : BoostScores]] :
                                n \in 0..MaxIcons} :
                  \A i, j \in 1..Len(c) : i # j => c[i].name # c[j].name},
     words : SUBSET BoostWords]

\* _apply_keyword_boost is called with the processed badge text and the
\* similarities (badge-generator/main.py:949)
BoostApply ==
    /\ iFn = "none"
    /\ iFn' = "_apply_keyword_boost"
    /\ iOut' = ApplyKeywordBoost(iIn.words, iIn.corpus)
    /\ UNCHANGED <<iIn, svcVars, procVars, callVars, extractVars, payloadVars, normVars, moreVars>>

\* what may fail inside a suggestion: nothing, the similarity computation
\* (TfidfVectorizer, cosine_similarity), or a step of the generator's
\* get_icon_suggestions_for_badge outside suggest_icons
GuardFails == {"none", "similarity", "format"}

GuardInputs ==
    {in \in [corpus : Corpora, words : SUBSET Vocabulary, top_k : 1..MaxK,
              fails : GuardFails] :
        in.words = {} => \A i \in 1..Len(in.corpus) : in.corpus[i].score = 0}

\* calculate_batch_similarity (src/app/utils/similarity.py:10-52): the
\* corpus with the scores it returns
CalculateBatchSimilarity(in) ==
    IF in.words = {} \/ in.corpus = <<>> \/ in.fails = "similarity"
    THEN [i \in 1..Len(in.corpus) |-> Icon(in.corpus[i].name, 0)]
    ELSE in.corpus

\* get_icon_suggestions_for_badge of src/app/utils/icon_matcher.py with the
\* scores of calculate_batch_similarity
GuardedMatcherSuggest(in) ==
    MatcherSuggest([corpus |-> CalculateBatchSimilarity(in), words |-> in.words,
                    top_k |-> in.top_k])

\* IconMatcher.suggest_icons with its except clause (main.py:966-970)
GuardedClassSuggest(in, order) ==
    IF in.fails = "similarity" /\ in.words # {} /\ in.corpus # <<>>
    THEN IOut(Icon(in.corpus[1].name, 0), <<>>, "", <<"default">>)
    ELSE MatcherClassSuggest(in, order)

\* get_icon_suggestions_for_badge of src/badge-generator/main.py (824-872)
GeneratorSuggest(in, order) ==
    LET candidates == GuardedClassSuggest(in, order)
    IN  IF in.fails = "format" \/ candidates.best = NoIcon
        THEN IOut(Icon("", 0), <<>>, "", <<"default">>)
        ELSE candidates

GuardMatcher ==
    /\ iFn = "none"
    /\ iFn' = "icon_matcher"
    /\ iOut' = GuardedMatcherSuggest(iIn)
    /\ UNCHANGED <<iIn, svcVars, procVars, callVars, extractVars, payloadVars, normVars, moreVars>>

GuardGenerator ==
    /\ iFn = "none"
    /\ \E order \in ArgSorts(ApplyKeywordBoost(iIn.words, iIn.corpus)) :
          /\ iFn' = "generator"
          /\ iOut' = GeneratorSuggest(iIn, order)
    /\ UNCHANGED <<iIn, svcVars, procVars, callVars, extractVars, payloadVars, normVars, moreVars>>

IconMatcherSuggest == ApplySuggest("icon_matcher", MatcherSuggest(iIn))
IconControllerSuggest == ApplySuggest("controller_utils", ControllerSuggest(iIn))
IconClassSuggest ==
    \E order \in ArgSorts(ApplyKeywordBoost(iIn.words, iIn.corpus)) :
        ApplySuggest("IconMatcher.suggest_icons", MatcherClassSuggest(iIn, order))

(***************************************************************************)
(* Text normalization.                                                     *)
(***************************************************************************)
\* longest text handed to preprocess_text
MaxText == 4

\* letters, a capital letter, punctuation, whitespace
NormChars == {"a", "s", "w", "A", ".", " "}

\* the stop words that can be written with these letters and are longer
\* than two letters
StopWords == {<<"w", "a", "s">>}

\* str.lower()
Lower(t) == [i \in 1..Len(t) |-> IF t[i] = "A" THEN "a" ELSE t[i]]

\* re.sub(r'[^\w\s]', ' ', text) (text_processor.py:44)
PunctToSpace(t) == [i \in 1..Len(t) |-> IF t[i] = "." THEN " " ELSE t[i]]

\* re.sub(r'[^a-zA-Z\s]', '', text) (badge-generator/main.py:616)
RemovePunct(t) == SelectSeq(t, LAMBDA c : c # ".")

RECURSIVE Split(_)
\* str.split(): the words between runs of whitespace
Split(t) ==
    LET u == LStrip(t)
        sp == Find(u, " ")
    IN  IF u = <<>> THEN <<>>
        ELSE IF sp = 0 THEN <<u>>
        ELSE <<SubSeq(u, 1, sp - 1)>> \o Split(SubSeq(u, sp + 1, Len(u)))

RECURSIVE Join(_)
\* ' '.join(words)
Join(words) ==
    IF words = <<>> THEN <<>>
    ELSE IF Len(words) = 1 THEN words[1]
    ELSE words[1] \o <<" ">> \o Join(Tail(words))

\* re.sub(r'\s+', ' ', text) (text_processor.py:45)
CollapseWs(t) ==
    SelectSeq([i \in 1..Len(t) |-> IF t[i] = " " /\ i > 1 /\ t[i - 1] = " " THEN "" ELSE t[i]],
              LAMBDA c : c # "")

\* PorterStemmer.stem on words of these letters: a word of up to two
\* letters is returned as it is, a final ss stays, any other final s goes
\* (step 1a); no other step has a suffix made of these letters
Stem(w) ==
    IF Len(w) <= 2 THEN w
    ELSE IF w[Len(w)] = "s" /\ w[Len(w) - 1] # "s" THEN SubSeq(w, 1, Len(w) - 1)
    ELSE w

\* `token not in STOP_WORDS and len(token) > 2`
Kept(words) == SelectSeq(words, LAMBDA w : w \notin StopWords /\ Len(w) > 2)

\* the words after the filter, stemmed when NLTK is available
Tokens(text, nltk) ==
    LET kept == Kept(Split(text))
    IN  IF nltk THEN [i \in 1..Len(kept) |-> Stem(kept[i])] ELSE kept

\* preprocess_text of src/app/services/text_processor.py (38-58)
PreprocessApp(text, nltk) ==
    IF text = <<>> THEN <<>>
    ELSE Join(Tokens(CollapseWs(PunctToSpace(Strip(Lower(text)))), nltk))

\* preprocess_text of src/badge-generator/main.py (604-642)
PreprocessGen(text, nltk) ==
    IF text = <<>> THEN <<>>
    ELSE Join(Tokens(Join(Split(RemovePunct(Lower(text)))), nltk))

NormPaths == {"app_nltk", "app_basic", "generator_nltk", "generator_basic"}

PreprocessText(fn, text) ==
    CASE fn = "app_nltk" -> PreprocessApp(text, TRUE)
      [] fn = "app_basic" -> PreprocessApp(text, FALSE)
      [] fn = "generator_nltk" -> PreprocessGen(text, TRUE)
      [] fn = "generator_basic" -> PreprocessGen(text, FALSE)

NormTexts == UNION {[1..n -> NormChars] : n \in 0..MaxText}

\* preprocess_text is called on a text
NormFirst(fn) ==
    /\ nFn = "none"
    /\ nFn' = fn
    /\ nOut' = <<PreprocessText(fn, nIn)>>
    /\ UNCHANGED <<nIn, svcVars, procVars, callVars, extractVars, payloadVars, iconVars, moreVars>>

NormAppNltk == NormFirst("app_nltk")
NormAppBasic == NormFirst("app_basic")
NormGeneratorNltk == NormFirst("generator_nltk")
NormGeneratorBasic == NormFirst("generator_basic")

\* preprocess_text is called on its own result, as suggest_icons does with
\* the text build_weighted_badge_text made (badge-generator/main.py:650, 939)
NormAgain ==
    /\ nFn # "none"
    /\ Len(nOut) = 1
    /\ nOut' = nOut \o <<PreprocessText(nFn, nOut[1])>>
    /\ UNCHANGED <<nIn, nFn, svcVars, procVars, callVars, extractVars, payloadVars, iconVars, moreVars>>

(***************************************************************************)
(* The badge history and edit-badge-metadata.                              *)
(***************************************************************************)
\* number of badges generated in one run
MaxBadges == 4
\* `if len(badge_history) > 50` (badges.py:138)
HistoryLimit == 50

\* Python values that are compared with ==: an int, the str of a uuid4, and
\* the str of a decimal number; values of different type are never equal
IntVal(n) == [t |-> "int", v |-> n]
Uuid(n) == [t |-> "uuid", v |-> n]
Digits(n) == [t |-> "str", v |-> n]

\* keys a client may append
AppendKeys == {"note", "tag"}

\* AppendDataRequest.badge_id is a str (src/app/models/requests.py:19-21)
RequestIds == {Uuid(n) : n \in 1..MaxBadges} \cup {Digits(n) : n \in 1..MaxBadges}

NoResp == [op |-> "none", status |-> 0, badge_id |-> Uuid(0), data |-> {}]

\* the entry generate_badge stores (badges.py:119-134); data are the keys
\* appended to its result
HistoryEntry(id, badge_id) == [id |-> id, badge_id |-> badge_id, data |-> {}]

\* badge_history.append(history_entry) and the pop(0) above the limit
Stored(history, entry) ==
    LET appended == Append(history, entry)
    IN  IF Len(appended) > HistoryLimit THEN Tail(appended) ELSE appended

\* generate_badge from the badge id on (badges.py:98-143)
GenerateBadgeStored ==
    /\ hCount < MaxBadges
    /\ LET badge_id == Uuid(hCount + 1)
       IN  /\ badge_history' = Stored(badge_history,
                                      HistoryEntry(IntVal(Len(badge_history) + 1), badge_id))
           /\ hResp' = [op |-> "generate", status |-> 200, badge_id |-> badge_id,
                        data |-> {}]
    /\ hCount' = hCount + 1
    /\ UNCHANGED <<svcVars, procVars, callVars, extractVars, payloadVars, iconVars,
                   normVars, clientVars>>

\* the for loop of edit_badge_metadata (badges.py:259-263): index of the
\* first entry whose "id" equals the request's badge_id, 0 when none
TargetBadge(history, badge_id) ==
    LET idx == {i \in 1..Len(history) : history[i].id = badge_id}
    IN  IF idx = {} THEN 0 ELSE CHOOSE i \in idx : \A j \in idx : i <= j

\* edit_badge_metadata (badges.py:254-309)
EditBadgeMetadata(badge_id, append_data) ==
    LET target_badge == TargetBadge(badge_history, badge_id)
    IN  /\ IF target_badge = 0
           THEN /\ hResp' = [op |-> "edit", status |-> 404, badge_id |-> badge_id,
                             data |-> {}]
                /\ UNCHANGED badge_history
           ELSE LET updated_result ==
                        badge_history[target_badge].data \cup append_data
                IN  /\ badge_history' =
                           [badge_history EXCEPT ![target_badge].data = updated_result]
                    /\ hResp' = [op |-> "edit", status |-> 200, badge_id |-> badge_id,
                                 data |-> updated_result]
        /\ UNCHANGED <<hCount, svcVars, procVars, callVars, extractVars, payloadVars,
                       iconVars, normVars, clientVars>>

EditBadge ==
    \E badge_id \in RequestIds, append_data \in (SUBSET AppendKeys) \ {{}} :
        EditBadgeMetadata(badge_id, append_data)

\* clear_badge_history (badges.py:322-327)
ClearBadgeHistory ==
    /\ badge_history' = <<>>
    /\ hResp' = [op |-> "clear", status |-> 200, badge_id |-> Uuid(0), data |-> {}]
    /\ UNCHANGED <<hCount, svcVars, procVars, callVars, extractVars, payloadVars,
                   iconVars, normVars, clientVars>>

(***************************************************************************)
(* The pooled HTTP client of OllamaService.                                *)
(***************************************************************************)
\* number of clients created, and of close() calls under way, in one run
MaxClients == 3
MaxClosers == 2

\* the methods that send a request on the pooled client (lines 102, 177, 247)
ClientUsers == {"generate", "generate_stream", "health_check"}

NoSend == [by |-> "none", client |-> 0, state |-> "none"]

\* _get_client (ollama_service.py:48-81); it has no await that suspends:
\* <<client_pool, clients>> afterwards
GetClient ==
    IF client_pool = 0 THEN <<Len(clients) + 1, Append(clients, "open")>>
    ELSE <<client_pool, clients>>

\* client = await self._get_client() and the request sent on it at once
\* (lines 102-103, 177-178, 247-248)
SendRequest(m) ==
    /\ client_pool = 0 => Len(clients) < MaxClients
    /\ LET got == GetClient
       IN  /\ client_pool' = got[1]
           /\ clients' = got[2]
           /\ lastSend' = [by |-> m, client |-> got[1], state |-> got[2][got[1]]]
    /\ UNCHANGED <<closing, svcVars, procVars, callVars, extractVars, payloadVars,
                   iconVars, normVars, histVars>>

\* close() up to its await (lines 367-370): aclose() marks the client closed
\* at once and suspends while the connections are closed; with no client
\* close() returns without a change
CloseBegin ==
    /\ client_pool # 0
    /\ Len(closing) < MaxClosers
    /\ clients' = [clients EXCEPT ![client_pool] = IF @ = "open" THEN "closing" ELSE @]
    /\ closing' = Append(closing, client_pool)
    /\ UNCHANGED <<client_pool, lastSend, svcVars, procVars, callVars, extractVars,
                   payloadVars, iconVars, normVars, histVars>>

\* aclose() returns to the i-th suspended close(): self.client_pool = None
\* (line 371)
CloseEnd(i) ==
    /\ i \in 1..Len(closing)
    /\ clients' = [clients EXCEPT ![closing[i]] = "closed"]
    /\ client_pool' = 0
    /\ closing' = SubSeq(closing, 1, i - 1) \o SubSeq(closing, i + 1, Len(closing))
    /\ UNCHANGED <<lastSend, svcVars, procVars, callVars, extractVars, payloadVars,
                   iconVars, normVars, histVars>>

(***************************************************************************)
(* Specifications.                                                         *)
(***************************************************************************)
\* no badge was generated yet
HistIdle == badge_history = <<>> /\ hCount = 0 /\ hResp = NoResp
\* no client was created yet (ollama_service.py:43)
ClientIdle == client_pool = 0 /\ clients = <<>> /\ closing = <<>> /\ lastSend = NoSend
MoreIdle == HistIdle /\ ClientIdle
\* nothing was handed to a pure function yet
PayloadIdle == pIn = "none" /\ pFn = "none" /\ pOut = "none"
IconIdle == iIn = "none" /\ iFn = "none" /\ iOut = "none"
NormIdle == nIn = <<>> /\ nFn = "none" /\ nOut = <<>>
OthersIdle == PayloadIdle /\ IconIdle /\ NormIdle

Init == SvcInit /\ ProcInit /\ CallInit /\ MoreIdle /\ ExtractIdle /\ OthersIdle

Next ==
    \/ \E p \in Procs, m \in Methods : CallFast(p, m)
    \/ \E p \in Procs, m \in Methods : CallWait(p, m)
    \/ \E p \in Procs : Resume(p)
    \/ \E p \in Procs : GenerateComplete(p)
    \/ \E p \in Procs : StreamYield(p)
    \/ \E p \in Procs : StreamNext(p)
    \/ \E p \in Procs : StreamEnd(p)
    \/ \E p \in Procs : Abandon(p)
    \/ \E p \in Procs : Finalize(p)

Spec == Init /\ [][Next]_vars

\* calls that run to their end or are cancelled while they wait for a slot
NextCancel ==
    \/ \E p \in Procs, m \in Methods : CallFast(p, m)
    \/ \E p \in Procs, m \in Methods : CallWait(p, m)
    \/ \E p \in Procs : Resume(p)
    \/ \E p \in Procs : GenerateComplete(p)
    \/ \E p \in Procs : StreamEnd(p)
    \/ \E p \in Procs : CancelWaiting(p)

SpecCancel == Init /\ [][NextCancel]_vars

NextCall ==
    \/ \E c \in Calls : CallStart(c)
    \/ \E r \in FailKinds \cup {"ok", "status"} : StreamConnect(r)
    \/ \E l \in Lines : StreamLine(l)
    \/ StreamEof
    \/ \E k \in FailKinds : StreamFail(k)
    \/ \E r \in FailKinds \cup {"ok"} : StreamClose(r)
    \/ ConsumerNext
    \/ ConsumerAbandon
    \/ \E closeOk \in BOOLEAN : CallFinalize(closeOk)
    \/ CallDealloc
    \/ CancelAwait
    \/ \E a \in Answers : GeneratePost(a)

SpecCall == Init /\ [][NextCall]_vars

\* the event loop runs the finalizer of an unreferenced generator, and frees
\* a generator nothing refers to
SpecCallFair ==
    /\ SpecCall
    /\ WF_vars(\E closeOk \in BOOLEAN : CallFinalize(closeOk))
    /\ WF_vars(CallDealloc)

InitExtract ==
    /\ SvcInit /\ ProcInit /\ CallInit /\ MoreIdle /\ OthersIdle
    /\ xText \in Texts /\ xObj = <<>> /\ xFn = "none" /\ xResult = NoResult

NextExtract == ExtractResponse \/ ExtractText \/ ExtractModel

SpecExtract == InitExtract /\ [][NextExtract]_vars

\* an extractor is about to be called on prose, one nested object, prose
InitBalanced ==
    /\ SvcInit /\ ProcInit /\ CallInit /\ MoreIdle /\ OthersIdle
    /\ xObj \in Nest(MaxDepth)
    /\ \E pre \in Prefixes, suf \in Suffixes : xText = pre \o xObj \o suf
    /\ xFn = "none" /\ xResult = NoResult

SpecBalanced == InitBalanced /\ [][NextExtract]_vars

\* a path is about to be applied to a model output
InitPayload ==
    /\ SvcInit /\ ProcInit /\ CallInit /\ MoreIdle /\ ExtractIdle /\ IconIdle /\ NormIdle
    /\ pIn \in PayloadInputs /\ pFn = "none" /\ pOut = NoPOut

NextPayload ==
    \/ PayloadExtractResponse
    \/ PayloadExtractText
    \/ PayloadExtractModel
    \/ PayloadParseResponse
    \/ PayloadGenerateBadge
    \/ PayloadGenerateBadgeStream

SpecPayload == InitPayload /\ [][NextPayload]_vars

\* a suggestion function is about to be called
InitIcon ==
    /\ SvcInit /\ ProcInit /\ CallInit /\ MoreIdle /\ ExtractIdle /\ PayloadIdle /\ NormIdle
    /\ iIn \in IconInputs /\ iFn = "none" /\ iOut = NoIOut

NextIcon == IconMatcherSuggest \/ IconControllerSuggest \/ IconClassSuggest

SpecIcon == InitIcon /\ [][NextIcon]_vars

\* the boost is about to be applied
InitBoost ==
    /\ SvcInit /\ ProcInit /\ CallInit /\ MoreIdle /\ ExtractIdle /\ PayloadIdle /\ NormIdle
    /\ iIn \in BoostInputs /\ iFn = "none" /\ iOut = <<>>

SpecBoost == InitBoost /\ [][BoostApply]_vars

\* a get_icon_suggestions_for_badge is about to be called
InitGuard ==
    /\ SvcInit /\ ProcInit /\ CallInit /\ MoreIdle /\ ExtractIdle /\ PayloadIdle /\ NormIdle
    /\ iIn \in GuardInputs /\ iFn = "none" /\ iOut = NoIOut

NextGuard == GuardMatcher \/ GuardGenerator

SpecGuard == InitGuard /\ [][NextGuard]_vars

\* the router starts with an empty history
InitHistory ==
    /\ SvcInit /\ ProcInit /\ CallInit /\ ExtractIdle /\ OthersIdle /\ MoreIdle

\* the service was constructed
InitClient ==
    /\ SvcInit /\ ProcInit /\ CallInit /\ ExtractIdle /\ OthersIdle /\ MoreIdle

NextClient ==
    \/ \E m \in ClientUsers : SendRequest(m)
    \/ CloseBegin
    \/ \E i \in 1..MaxClosers : CloseEnd(i)

SpecClient == InitClient /\ [][NextClient]_vars

NextHistory == GenerateBadgeStored \/ EditBadge \/ ClearBadgeHistory

SpecHistory == InitHistory /\ [][NextHistory]_vars

\* preprocess_text is about to be called
InitNorm ==
    /\ SvcInit /\ ProcInit /\ CallInit /\ MoreIdle /\ ExtractIdle /\ PayloadIdle /\ IconIdle
    /\ nIn \in NormTexts /\ nFn = "none" /\ nOut = <<>>

NextNorm ==
    \/ NormAppNltk
    \/ NormAppBasic
    \/ NormGeneratorNltk
    \/ NormGeneratorBasic
    \/ NormAgain

SpecNorm == InitNorm /\ [][NextNorm]_vars

(***************************************************************************)
(* Properties.                                                             *)
(***************************************************************************)
Last(q) == q[Len(q)]

IndexIn(q, x) == CHOOSE i \in 1..Len(q) : q[i] = x

IsTerminal(e) == e.type \in {"final", "error"}

RECURSIVE ConcatTokens(_)
\* the contents of the token events of evs, concatenated in emission order
ConcatTokens(evs) ==
    IF evs = <<>> THEN <<>>
    ELSE (IF Head(evs).type = "token" THEN Head(evs).content.text ELSE <<>>)
             \o ConcatTokens(Tail(evs))

\* zero or more fragment lines followed by one completion line
WellFormed(lines) ==
    /\ lines # <<>>
    /\ \A i \in 1..(Len(lines) - 1) :
          lines[i].kind = "obj" /\ lines[i].hasResp /\ ~lines[i].done
    /\ Last(lines).kind = "obj" /\ Last(lines).done

RemoveMalformed(lines) == SelectSeq(lines, LAMBDA l : l.kind # "bad")

RECURSIVE RunLines(_, _, _)
\* the events generate_stream yields for the lines of a stream that no
\* transport failure interrupts
RunLines(c, acc, lines) ==
    IF lines = <<>> THEN <<>>
    ELSE LET st == LineStep(c, acc, Head(lines))
         IN  IF st.raised THEN <<ErrorEvent(StreamHandler(c, "other"))>>
             ELSE IF st.stop THEN st.evs
             ELSE st.evs \o RunLines(c, st.acc, Tail(lines))

\* no contiguous part of t is accepted by json.loads
NoJsonSpan(t) ==
    \A i \in 1..Len(t) : \A j \in i..Len(t) : ~IsJson(SubSeq(t, i, j))

\* C1: in every reachable state of concurrent generate / generate_stream
\* calls, the callers that acquired a slot and have not released it number
\* at most max_concurrent_requests.
C1_SlotCeiling == Cardinality(holders) <= MaxConcurrent

\* the ceiling is reached by a generate and a generate_stream call while
\* another caller waits
C1_Witness ==
    /\ Cardinality(holders) = MaxConcurrent
    /\ sem_waiters # <<>>
    /\ \E p, q \in holders : call[p] = "generate" /\ call[q] = "generate_stream"

PendingWaiters == {p \in Procs : pc[p] = "waiting" /\ p \notin sem_granted}

\* the caller that has been waiting longest
FirstWaiting ==
    CHOOSE p \in PendingWaiters :
        \A q \in PendingWaiters : IndexIn(issued, p) <= IndexIn(issued, q)

ReleaseStep == \E p \in Procs : released'[p] = released[p] + 1

C2_AfterCeilingPlusOne ==
    (Len(issued) = MaxConcurrent + 1 /\ \A p \in Procs : released[p] = 0)
        => /\ Cardinality(holders) = MaxConcurrent
           /\ Len(sem_waiters) = 1
           /\ pc[sem_waiters[1]] = "waiting"
           /\ sem_granted = {}

C2_ReleaseWakesFirst ==
    /\ ReleaseStep =>
          sem_granted' = IF PendingWaiters = {} THEN sem_granted
                         ELSE sem_granted \cup {FirstWaiting}
    /\ \A p \in sem_granted' \ sem_granted :
          PendingWaiters # {} /\ p = FirstWaiting

\* C2: with ceiling N, once N+1 calls are issued and none has finished,
\* exactly N hold a slot and exactly one caller is suspended in acquire; each
\* release of a slot unblocks exactly one suspended caller, and a caller is
\* only ever unblocked when it is the one that has been waiting longest.
C2_CeilingAndFifo == [](C2_AfterCeilingPlusOne) /\ [][C2_ReleaseWakesFirst]_vars

\* a release has woken the first of two waiters
C2_Witness ==
    /\ Len(sem_waiters) >= 2
    /\ sem_granted = {sem_waiters[1]}
    /\ \E p \in Procs : released[p] = 1

C4_ExactlyOneTerminal ==
    (IsStream(cCall) /\ cPc = "done" /\ cAbandonedAt = "none")
        => /\ cEvents # <<>>
           /\ IsTerminal(Last(cEvents))
           /\ Cardinality({i \in 1..Len(cEvents) : IsTerminal(cEvents[i])}) = 1

\* a well-formed stream was read to its end without a failure
C5_Case ==
    /\ IsStream(cCall)
    /\ cPc = "done"
    /\ cOutcome = Exhausted
    /\ cFail = NoFail
    /\ WellFormed(cSent)

C5_TokensThenFinal ==
    /\ cEvents # <<>>
    /\ \A i \in 1..(Len(cEvents) - 1) : cEvents[i].type = "token"
    /\ Last(cEvents).type = "final"

C6_FailureBecomesErrorEvent ==
    (IsStream(cCall) /\ cFail.kind \in FailKinds /\ cAbandonedAt = "none")
        => /\ cPc \in {"yield", "done"}
           /\ cPc = "done" => cOutcome = Exhausted
           /\ Last(cEvents) = ErrorEvent(StreamHandler(cCall, cFail.kind))
           /\ Cardinality({i \in 1..Len(cEvents) :
                  cEvents[i] = ErrorEvent(StreamHandler(cCall, cFail.kind))}) = 1

\* closing the connection failed after the final event was taken
C6_Witness ==
    /\ cCall = "svc_stream"
    /\ cPc = "done"
    /\ cFail = [kind |-> "protocol", at |-> "close"]
    /\ Len(cEvents) >= 2

C7_EventsIgnoreMalformed ==
    (IsStream(cCall) /\ cFail = NoFail /\ cAbandonedAt = "none")
        => cEvents \o cPending.evs = RunLines(cCall, <<>>, RemoveMalformed(cSent))

C7_MalformedLineStep ==
    (cPc = "read" /\ Len(cSent') = Len(cSent) + 1 /\ Last(cSent').kind = "bad")
        => cPc' = "read" /\ cEvents' = cEvents /\ cAcc' = cAcc

\* C7: a response line that is not valid JSON produces no event and does not
\* end the stream; the events emitted are those of the same stream with the
\* malformed lines removed.
C7_MalformedSkipped == [](C7_EventsIgnoreMalformed) /\ [][C7_MalformedLineStep]_vars

\* a malformed line between a fragment line and the completion line
C7_Witness ==
    /\ IsStream(cCall)
    /\ cPc = "done"
    /\ Len(cSent) = 3
    /\ cSent[1].hasResp
    /\ cSent[2].kind = "bad"
    /\ cSent[3].done
    /\ Len(cEvents) >= 2

ExcKind(o) == <<o.type, o.status>>

Failures == {"timeout", "status", "protocol"}

C9_Case == IsGenerate(cCall) /\ cPc = "done" /\ cFail.kind \in Failures

C14_BalancedSpan ==
    (xFn # "none" /\ ~IsJson(xText)) => xResult = Parsed(xObj)

\* the keys of the badge schema are there and criteria is a mapping that
\* holds narrative
SchemaComplete(d) ==
    /\ d.badge_name.t # "absent"
    /\ d.badge_description.t # "absent"
    /\ d.criteria.t = "dict" /\ d.criteria.narrative

\* C11: every payload handed back for a model output, whatever the text,
\* holds badge_name, badge_description and a criteria mapping with narrative.
C11_SchemaComplete ==
    pOut.kind \in {"dict", "value", "badge"} =>
        pOut.kind # "value" /\ SchemaComplete(pOut.d)

\* the text is empty or whitespace only
IsBlank(t) == Strip(t) = <<>>

\* C12: for empty or whitespace-only text an extractor returns, without
\* raising, a payload without error marker that the badge schema accepts.
C12_BlankGivesValidPayload ==
    (pFn \in {"extract_json_from_response", "extract_json_from_text",
              "badge_model.extract_json_from_response"} /\ IsBlank(pIn.text)) =>
        /\ pOut.kind = "dict"
        /\ ~pOut.d.error
        /\ Validates(pOut.d.badge_name, pOut.d.badge_description, pOut.d.criteria)

\* C13: on both generation routes, after a successful parse, a string
\* criteria s arrives as {"narrative": s}, an absent criteria as
\* {"narrative": ""}, and a mapping arrives unchanged.
C13_CriteriaCoerced ==
    (/\ pFn \in {"generate_badge", "generate_badge_stream"}
     /\ PathParse(pFn, pIn).kind = "dict"
     /\ PathParse(pFn, pIn).detail = "parsed") =>
        /\ pOut.kind = "badge"
        /\ pIn.fields.criteria.t = "str" =>
                pOut.d.criteria = Mapping(TRUE, pIn.fields.criteria.s)
        /\ pIn.fields.criteria.t = "absent" => pOut.d.criteria = Mapping(TRUE, "")
        /\ pIn.fields.criteria.t = "dict" => pOut.d.criteria = pIn.fields.criteria

\* C15: over an empty corpus every suggestion, for every query and top_k,
\* has the trophy as best match with score 0.
C15_EmptyCorpusDefault ==
    (iFn # "none" /\ iIn.corpus = <<>>) => iOut.best = Icon("trophy.png", 0)

\* C16: every suggestion has at most min(top_k, M) alternatives for a
\* corpus of M icons, and its best match is not among them.
C16_AlternativesBounded ==
    iFn # "none" =>
        /\ Len(iOut.alternatives) <= Min(iIn.top_k, Len(iIn.corpus))
        /\ \A i \in 1..Len(iOut.alternatives) : iOut.alternatives[i].name # iOut.best.name

\* the tier a method tag stands for
TierOf(method) ==
    CASE method \in {"tfidf_batch_similarity", "tfidf_similarity"} -> "tfidf"
      [] method = "keyword_fallback" -> "keyword"
      [] method = "smart_category_fallback" -> "category"
      [] method = "emergency_fallback" -> "default"
      [] OTHER -> "none"

\* C17: the method tag of a suggestion names the tier that chose the best
\* icon; the fixed default is tagged apart from category, keyword and
\* TF-IDF choices.
C17_MethodNamesTier ==
    iFn = "icon_matcher" => TierOf(iOut.method) = iOut.tiers[Len(iOut.tiers)]

\* the tiers consulted after the TF-IDF match
FallbackTiers(tiers) == SelectSeq(tiers, LAMBDA t : t # "tfidf")

\* C18: when the best TF-IDF score is under the threshold or the corpus is
\* empty, the tiers are consulted in the order keyword, category, default,
\* each only after the ones before it found nothing.
C18_TierOrder ==
    (/\ iFn = "icon_matcher"
     /\ \/ iIn.corpus = <<>>
        \/ iIn.words # {} /\ \A i \in 1..Len(iIn.corpus) : iIn.corpus[i].score < LowScore) =>
        FallbackTiers(iOut.tiers) \in
            {<<"keyword">>, <<"keyword", "category">>, <<"keyword", "category", "default">>}

\* best match and alternatives, in the order returned
Ranking(out) == IF out.best = NoIcon THEN <<>> ELSE <<out.best>> \o out.alternatives

\* the index of the icon called name in the corpus, 0 when it is not there
CorpusIndex(corpus, name) ==
    LET idx == {i \in 1..Len(corpus) : corpus[i].name = name}
    IN  IF idx = {} THEN 0 ELSE CHOOSE i \in idx : TRUE

\* C19: a returned ranking has non-increasing scores, and entries of equal
\* score are in the order they have in the corpus.
C19_SortedStable ==
    iFn # "none" =>
        \A i, j \in 1..Len(Ranking(iOut)) :
            i < j =>
                /\ Ranking(iOut)[i].score >= Ranking(iOut)[j].score
                /\ (/\ Ranking(iOut)[i].score = Ranking(iOut)[j].score
                    /\ CorpusIndex(iIn.corpus, Ranking(iOut)[i].name) # 0
                    /\ CorpusIndex(iIn.corpus, Ranking(iOut)[j].name) # 0) =>
                        CorpusIndex(iIn.corpus, Ranking(iOut)[i].name)
                            < CorpusIndex(iIn.corpus, Ranking(iOut)[j].name)

\* C20: preprocess_text applied to its own result returns that result, with
\* the stemmer and on the unstemmed fallback path.
C20_Idempotent == Len(nOut) = 2 => nOut[2] = nOut[1]

\* the keywords of corpus icon i that the query holds
SharedKeywords(i) ==
    Cardinality({k \in CorpusKeywords(iIn.corpus[i].name) :
                    \A n \in 1..Len(k) : k[n] \in iIn.words})

\* C21: the boost is 0.1 per keyword the query shares with the icon, at most
\* 0.3 in total; an icon that shares none keeps its score; no boosted
\* score is above 1.0.
C21_BoostBounded ==
    iFn = "_apply_keyword_boost" =>
        /\ Len(iOut) = Len(iIn.corpus)
        /\ \A i \in 1..Len(iOut) :
              /\ iOut[i].name = iIn.corpus[i].name
              /\ iOut[i].score <= FullScore
              /\ iOut[i].score - iIn.corpus[i].score <= 300
              /\ SharedKeywords(i) = 0 => iOut[i].score = iIn.corpus[i].score
              /\ iOut[i].score =
                    Min(FullScore, iIn.corpus[i].score + Min(300, SharedKeywords(i) * 100))

\* C22: get_icon_suggestions_for_badge returns, for every query and corpus,
\* a best icon with a name, also for an empty query and when the similarity
\* computation fails inside.
C22_AlwaysNamedIcon == iFn # "none" => iOut.best.name # ""

\* no part of the text is valid JSON
NoJsonIn(t) == \A i \in 1..Len(t) : \A j \in i..Len(t) : ~IsJson(SubSeq(t, i, j))

\* C23: a streamed generation whose accumulated text holds no valid JSON
\* ends with the final success event carrying the degraded payload (empty
\* name, empty description, criteria with an empty narrative), never with an
\* error event.
C23_StreamDegrades ==
    (pFn = "generate_badge_stream" /\ NoJsonIn(pIn.text)) =>
        /\ pOut.kind = "badge"
        /\ pOut.d.badge_name = Str("")
        /\ pOut.d.badge_description = Str("")
        /\ pOut.d.criteria = Mapping(TRUE, "")

\* C24: edit-badge-metadata with the badge identifier of a badge that is in
\* the history answers 200 and appends the supplied data to that entry's
\* result; it answers 404 only when no entry has that badge identifier.
C24_EditFindsBadge ==
    [][\A badge_id \in RequestIds, append_data \in (SUBSET AppendKeys) \ {{}} :
          EditBadgeMetadata(badge_id, append_data) =>
              LET entries == {i \in 1..Len(badge_history) :
                                 badge_history[i].badge_id = badge_id}
              IN  IF entries = {} THEN hResp'.status = 404
                  ELSE /\ hResp'.status = 200
                       /\ \E i \in entries :
                             append_data \subseteq badge_history'[i].data]_vars

\* C25: in every reachable state of any interleaving of generate and
\* generate_stream calls, active_requests equals the number of calls that
\* acquired a slot and have not released it; it is never negative and never
\* above the ceiling, and neither an increment nor a decrement is lost.
C25_CounterExact ==
    /\ active_requests = Cardinality(holders)
    /\ active_requests \in 0..MaxConcurrent
    /\ request_counter = Cardinality(holders) + Cardinality({p \in Procs : released[p] > 0})

\* calls were counted up and down: one call released its slot while a
\* stream holds one and a woken waiter took the freed one
C25_Witness ==
    /\ active_requests = MaxConcurrent
    /\ \E p \in Procs : released[p] = 1 /\ pc[p] = "done"
    /\ \E q \in holders : call[q] = "generate_stream" /\ pc[q] = "yielded"
    /\ \E w \in holders : IndexIn(issued, w) > MaxConcurrent

\* slots that no call holds: free in the semaphore or handed to a waiter
\* that has not resumed yet
FreeSlots == sem_value + Cardinality(sem_granted)

C26_CancelledHoldsNothing ==
    /\ \A p \in Procs : pc[p] = "cancelled" => p \notin holders /\ released[p] = 0
    /\ FreeSlots + Cardinality(holders) = MaxConcurrent
    /\ (PendingWaiters # {} /\ sem_granted = {}) => sem_value = 0

C26_CancelChangesNothing ==
    \A p \in Procs :
        (pc[p] = "waiting" /\ pc'[p] = "cancelled") =>
            /\ active_requests' = active_requests
            /\ holders' = holders
            /\ FreeSlots' = FreeSlots

C26_ReleaseWakesOne ==
    ReleaseStep =>
        IF PendingWaiters = {} THEN sem_granted' = sem_granted
        ELSE sem_granted' = sem_granted \cup {FirstWaiting}

\* C26: a caller cancelled while suspended in acquire never holds a slot
\* and never releases one; the cancellation changes neither active_requests
\* nor the number of free slots, and the remaining waiters are still
\* unblocked, one per release.
C26_CancelSafe ==
    /\ [](C26_CancelledHoldsNothing)
    /\ [][C26_CancelChangesNothing]_vars
    /\ [][C26_ReleaseWakesOne]_vars

\* a woken waiter was cancelled before it resumed, and the waiter behind it
\* got the slot
C26_Witness ==
    \E p, q \in Procs :
        /\ pc[p] = "cancelled"
        /\ q \in holders
        /\ IndexIn(issued, q) > IndexIn(issued, p)
        /\ IndexIn(issued, p) > MaxConcurrent
        /\ Cardinality({r \in Procs : released[r] = 1}) = 1

RECURSIVE Fragments(_)
\* the `response` fragments of the lines, concatenated in line order
Fragments(lines) ==
    IF lines = <<>> THEN <<>>
    ELSE (IF Head(lines).kind = "obj" /\ Head(lines).hasResp THEN Head(lines).resp
          ELSE <<>>) \o Fragments(Tail(lines))

\* C27: the final event of a stream carries the concatenation, in line
\* order, of every `response` fragment received up to and including the
\* completion line (as text from OllamaClient, as the JSON value parsed from
\* it from OllamaService); no fragment is dropped, also not the one carried
\* by the completion line itself.
C27_NoFragmentDropped ==
    (/\ IsStream(cCall)
     /\ cEvents # <<>>
     /\ Last(cEvents).type = "final") =>
        /\ cCall = "cli_stream" =>
              Last(cEvents).content = TextContent(Fragments(cSent))
        /\ cCall = "svc_stream" =>
              Last(cEvents).content =
                  JsonContent(LoadCleaned(CleanJsonResponse(Fragments(cSent))).value)

\* C28: extract_json_from_response returns a mapping for every input text,
\* also for text that is valid JSON and no object, so that its caller can
\* assign keys into the result.
C28_AlwaysMapping ==
    /\ pFn \in {"extract_json_from_response",
                "badge_model.extract_json_from_response"} => pOut.kind = "dict"
    /\ pFn = "generate_badge" => PathParse(pFn, pIn).kind # "raise"

\* the names of ICON_KEYWORDS (icon_matcher.py:574-610) among the names
\* the suggestion functions deal with here; book.png is not one of its keys
KeywordIconNames ==
    {IconKeywords[i].icon : i \in 1..Len(IconKeywords)} \cup {"trophy.png"}

\* the known icons: those of ICONS_DATA and those of ICON_KEYWORDS
KnownIcons == {iIn.corpus[i].name : i \in 1..Len(iIn.corpus)} \cup KeywordIconNames

\* C29: on every path of get_icon_suggestions_for_badge, the top-ranked,
\* keyword, category and default paths alike, the best icon's name is the
\* name of a known icon (of ICONS_DATA or of ICON_KEYWORDS).
C29_BestIconKnown ==
    iFn = "icon_matcher" => iOut.best.name \in KnownIcons

\* C30: in any interleaving of close() with generate, generate_stream and
\* health_check, at most one pooled client is open at a time, no request is
\* sent on a client whose close has begun, and a call that obtains the
\* client once close() is over gets a fresh open client.
C30_ClientDiscipline ==
    /\ Cardinality({i \in 1..Len(clients) : clients[i] = "open"}) <= 1
    /\ lastSend # NoSend => lastSend.state = "open"
    /\ (client_pool # 0 /\ closing = <<>>) => clients[client_pool] = "open"

=============================================================================
